---- MODULE Spec2Model ----
(***************************************************************************)
(* BVH importer (josephkirk/UE_BVHImporter).                               *)
(*                                                                         *)
(* The model covers the two parsers of the plugin and the three places     *)
(* that turn motion channels into transforms:                              *)
(*   - FBVHParser (line based)            BVHParser.cpp                    *)
(*   - FInterchangeBVHParser (token based) InterchangeBVHParser.cpp        *)
(*   - UBVHFactory::FactoryCreateFile      BVHFactory.cpp                  *)
(*   - UInterchangeBVHTranslator::Translate / GetAnimationPayloadData      *)
(*   - FInterchangeBVHParser::LoadBVHFile / GetTransform                   *)
(*                                                                         *)
(* Text.  A file is a sequence of lines.  A line is the sequence of its    *)
(* space separated words (leading and trailing blanks removed, runs of     *)
(* blanks collapsed); a word is the sequence of its tab separated atoms.   *)
(* "ROOT Hips" is << <<"ROOT">>, <<"Hips">> >> and "ROOT<TAB>Hips" is      *)
(* << <<"ROOT", "Hips">> >>.  Atoms are opaque: StartsWith and Contains    *)
(* of a keyword are modelled as equality with the atom they look at.       *)
(*                                                                         *)
(* Numbers.  Numerals are atoms; Atod / Atoi give the integer a numeral    *)
(* denotes and 0 for any other atom, as the C conversions do.  The model   *)
(* keeps to integral numerals.  Motion values are multiples of 90 degrees  *)
(* so that quaternions are exact (see AxisQuat).                           *)
(***************************************************************************)
EXTENDS Integers, Sequences, FiniteSets, TLC

VARIABLES
    file,      \* the source file the import operations read
    parser,    \* the fields of the FInterchangeBVHParser object
    out        \* what the last operation returned
vars == <<file, parser, out>>

(***************************************************************************)
(* Bounds of the model.                                                    *)
(***************************************************************************)
\* frame rows written in a generated file: 1..MaxFrames
MaxFrames == 2
\* number of hierarchy shapes taken from the shape catalogue
MaxShapes == 7

(***************************************************************************)
(* Text helpers                                                            *)
(***************************************************************************)
\* a space separated line from a tuple of atoms
Sp(t) == [i \in 1..Len(t) |-> <<t[i]>>]
\* the same atoms separated by tabs: a single word
Tb(t) == IF t = <<>> THEN <<>> ELSE <<t>>

RECURSIVE Flatten(_)
\* all atoms of a sequence of sequences, in order
Flatten(ss) == IF ss = <<>> THEN <<>> ELSE Head(ss) \o Flatten(Tail(ss))

\* integral numerals the conversions understand
NumVal ==
    [a \in {"0", "1", "2", "3", "4", "5", "6", "7", "90", "180", "270", "360",
            "-90"} |->
        CASE a = "0" -> 0 [] a = "1" -> 1 [] a = "2" -> 2 [] a = "3" -> 3
          [] a = "4" -> 4 [] a = "5" -> 5 [] a = "6" -> 6
          [] a = "7" -> 7 [] a = "90" -> 90 [] a = "180" -> 180
          [] a = "270" -> 270 [] a = "360" -> 360 [] a = "-90" -> 0 - 90]

\* FCString::Atod / Atoi of one atom: the number it starts with, else 0
AtodAtom(a) == IF a \in DOMAIN NumVal THEN NumVal[a] ELSE 0
\* of a word: conversion stops at the first tab; of the empty string: 0
Atod(w) == IF w = <<>> THEN 0 ELSE AtodAtom(w[1])
Atoi(w) == Atod(w)

RECURSIVE JoinTab(_)
\* the FString of a word (atoms joined by the tab character)
JoinTab(w) ==
    IF w = <<>> THEN ""
    ELSE IF Len(w) = 1 THEN w[1]
    ELSE w[1] \o "\t" \o JoinTab(Tail(w))

\* Trimmed == TEXT(s): the trimmed line is exactly the keyword s
LineIs(line, s) == line = << <<s>> >>
\* Trimmed.StartsWith(TEXT(s)) for a one-word keyword s
StartsWith(line, s) == line # <<>> /\ line[1][1] = s
\* Trimmed.StartsWith(TEXT("a b")) for a two-word keyword
StartsWith2(line, a, b) ==
    /\ Len(line) >= 2
    /\ line[1] = <<a>>
    /\ line[2][1] = b

(***************************************************************************)
(* Vectors and quaternions                                                 *)
(*                                                                         *)
(* A quaternion is [x, y, z, w, e] and stands for (x, y, z, w) / sqrt(2)^e *)
(* with integer x..w.  Rotations by multiples of 90 degrees about the      *)
(* coordinate axes and their products are exactly these.                   *)
(***************************************************************************)
ZeroVector == <<0, 0, 0>>

Even4(q) == q.x % 2 = 0 /\ q.y % 2 = 0 /\ q.z % 2 = 0 /\ q.w % 2 = 0

RECURSIVE QNorm(_)
\* lowest terms: (2a, 2b, 2c, 2d) / sqrt(2)^(e+2) = (a, b, c, d) / sqrt(2)^e
QNorm(q) ==
    IF q.e >= 2 /\ Even4(q)
    THEN QNorm([x |-> q.x \div 2, y |-> q.y \div 2, z |-> q.z \div 2,
                w |-> q.w \div 2, e |-> q.e - 2])
    ELSE q

QuatIdentity == [x |-> 0, y |-> 0, z |-> 0, w |-> 1, e |-> 0]

\* B * A instead of A * B
QuatMulSwapped(a, b) ==
    QNorm([w |-> b.w * a.w - b.x * a.x - b.y * a.y - b.z * a.z,
           x |-> b.w * a.x + b.x * a.w + b.y * a.z - b.z * a.y,
           y |-> b.w * a.y - b.x * a.z + b.y * a.w + b.z * a.x,
           z |-> b.w * a.z + b.x * a.y - b.y * a.x + b.z * a.w,
           e |-> a.e + b.e])

\* FQuat operator*: the Hamilton product A * B
QuatMul(a, b) ==
    QNorm([w |-> a.w * b.w - a.x * b.x - a.y * b.y - a.z * b.z,
           x |-> a.w * b.x + a.x * b.w + a.y * b.z - a.z * b.y,
           y |-> a.w * b.y - a.x * b.z + a.y * b.w + a.z * b.x,
           z |-> a.w * b.z + a.x * b.y - a.y * b.x + a.z * b.w,
           e |-> a.e + b.e])

\* (sin, cos) of k * 45 degrees as <<s, c, e>>: (s, c) / sqrt(2)^e
HalfAngle(k) ==
    CASE k % 8 = 0 -> <<0, 1, 0>>
      [] k % 8 = 1 -> <<1, 1, 1>>
      [] k % 8 = 2 -> <<1, 0, 0>>
      [] k % 8 = 3 -> <<1, 0 - 1, 1>>
      [] k % 8 = 4 -> <<0, 0 - 1, 0>>
      [] k % 8 = 5 -> <<0 - 1, 0 - 1, 1>>
      [] k % 8 = 6 -> <<0 - 1, 0, 0>>
      [] k % 8 = 7 -> <<0 - 1, 1, 1>>

\* FQuat(Axis, FMath::DegreesToRadians(Deg)) for a unit coordinate axis
\* (axis 1 = X, 2 = Y, 3 = Z) and Deg a multiple of 90:
\* (Axis * sin(a / 2), cos(a / 2))
AxisQuat(axis, deg) ==
    LET h == HalfAngle(deg \div 90)
    IN  [x |-> IF axis = 1 THEN h[1] ELSE 0,
         y |-> IF axis = 2 THEN h[1] ELSE 0,
         z |-> IF axis = 3 THEN h[1] ELSE 0,
         w |-> h[2], e |-> h[3]]

\* FQuat::IsIdentity: equal to the identity or to its negation
IsIdentity(q) == q.x = 0 /\ q.y = 0 /\ q.z = 0

\* ConvertPos maps the wrong pair of axes
ConvertPosNoSwap(p) == <<p[1], 0 - p[2], p[3]>>

\* ConvertPos: UE_X = BVH_X, UE_Y = -BVH_Z, UE_Z = BVH_Y
ConvertPos(p) == <<p[1], 0 - p[3], p[2]>>

\* ConvertRot: the same permutation on the vector part
ConvertRot(q) == [x |-> q.x, y |-> 0 - q.z, z |-> q.y, w |-> q.w, e |-> q.e]

(***************************************************************************)
(* FBVHParser (BVHParser.h / BVHParser.cpp)                                *)
(*                                                                         *)
(* Nodes live in an arena, nodes[1..], in the order they are created; a    *)
(* TSharedPtr / TWeakPtr is an index into it and 0 is the null pointer.    *)
(*                                                                         *)
(* ParseNode writes through its OutNode argument, which is null at both    *)
(* call sites (FBVHData::RootNode is default constructed, ChildNode is a   *)
(* fresh local) and is never assigned.  That is undefined behaviour.  The  *)
(* operators below compute the run in which each such write lands in a     *)
(* node object of its own and count the writes in nullw; the operations    *)
(* that call Parse choose between that run and a crash (see UB).           *)
(***************************************************************************)
\* FBVHNode() : Offset(FVector3d::ZeroVector), ChannelStartIndex = -1
NewNode ==
    [Name |-> "", Offset |-> ZeroVector, Channels |-> <<>>, Children |-> <<>>,
     Parent |-> 0, ChannelStartIndex |-> 0 - 1]

\* a misspelling table: Zrotation and Xrotation exchanged
ChannelKindSwapped(w) ==
    IF w = <<"Xposition">> THEN "Xposition"
    ELSE IF w = <<"Yposition">> THEN "Yposition"
    ELSE IF w = <<"Zposition">> THEN "Zposition"
    ELSE IF w = <<"Zrotation">> THEN "Xrotation"
    ELSE IF w = <<"Xrotation">> THEN "Zrotation"
    ELSE IF w = <<"Yrotation">> THEN "Yrotation"
    ELSE "Unknown"

\* the EBVHChannel a CHANNELS word maps to (exact, case sensitive match)
ChannelKind(w) ==
    IF w = <<"Xposition">> THEN "Xposition"
    ELSE IF w = <<"Yposition">> THEN "Yposition"
    ELSE IF w = <<"Zposition">> THEN "Zposition"
    ELSE IF w = <<"Zrotation">> THEN "Zrotation"
    ELSE IF w = <<"Xrotation">> THEN "Xrotation"
    ELSE IF w = <<"Yrotation">> THEN "Yrotation"
    ELSE "Unknown"

\* OFFSET line: Parts.Num() >= 4 sets the three components, else no change
OffsetOf(line, old) ==
    IF Len(line) >= 4 THEN <<Atod(line[2]), Atod(line[3]), Atod(line[4])>>
    ELSE old

\* only the first keyword of a CHANNELS line becomes a channel
ChannelsOfFirst(line) ==
    [i \in 1..(IF Len(line) > 2 THEN 1 ELSE 0) |-> ChannelKind(line[i + 2])]

\* CHANNELS line: every word from Parts[2] on becomes a channel
ChannelsOf(line) ==
    [i \in 1..(IF Len(line) > 2 THEN Len(line) - 2 ELSE 0) |->
        ChannelKind(line[i + 2])]

\* a node keeps its first child only
AddChildFirstOnly(Children, ChildNode) ==
    IF Children = <<>> THEN <<ChildNode>> ELSE Children

\* OutNode->Children.Add(ChildNode)
AddChild(Children, ChildNode) == Append(Children, ChildNode)

RECURSIVE EndSiteLoop(_, _, _)
\* the inner while (ReadLine(Line)) of the End Site branch:
\* returns <<CurrentLineIndex, EndNode>>
EndSiteLoop(lines, idx, EndNode) ==
    IF idx >= Len(lines) THEN <<idx, EndNode>>
    ELSE LET Line == lines[idx + 1]
         IN  IF LineIs(Line, "}") THEN <<idx + 1, EndNode>>
             ELSE IF StartsWith(Line, "OFFSET")
             THEN EndSiteLoop(lines, idx + 1,
                      [EndNode EXCEPT !.Offset = OffsetOf(Line, @)])
             ELSE EndSiteLoop(lines, idx + 1, EndNode)

RECURSIVE ParseNode(_, _, _)
RECURSIVE NodeLoop(_, _, _)
\* the while (ReadLine(Line)) loop of ParseNode, OutNode being nodes[id]
NodeLoop(lines, ps, id) ==
    IF ps.idx >= Len(lines) THEN [ret |-> TRUE, ps |-> ps, node |-> id]
    ELSE
    LET Line == lines[ps.idx + 1]
        p == [ps EXCEPT !.idx = @ + 1]
    IN  IF LineIs(Line, "}") THEN [ret |-> TRUE, ps |-> p, node |-> id]
        ELSE IF StartsWith(Line, "OFFSET")
        THEN NodeLoop(lines,
                 [p EXCEPT !.nodes[id].Offset = OffsetOf(Line, @)], id)
        ELSE IF StartsWith(Line, "CHANNELS")
        THEN NodeLoop(lines,
                 [p EXCEPT !.nodes[id].Channels = @ \o ChannelsOf(Line)], id)
        ELSE IF StartsWith(Line, "JOINT")
        THEN LET r == ParseNode(lines, p, id)
             IN  IF r.ret
                 THEN NodeLoop(lines,
                          [r.ps EXCEPT !.nodes[id].Children =
                                           AddChild(@, r.node)], id)
                 ELSE [ret |-> FALSE, ps |-> r.ps, node |-> id]
        ELSE IF StartsWith2(Line, "End", "Site")
        THEN LET EndNode == [NewNode EXCEPT
                                !.Name = p.nodes[id].Name \o "_End",
                                !.Parent = id]
             IN  IF p.idx >= Len(lines)
                 THEN [ret |-> FALSE, ps |-> p, node |-> id]
                 ELSE IF ~LineIs(lines[p.idx + 1], "{")
                 THEN [ret |-> FALSE, ps |-> [p EXCEPT !.idx = @ + 1],
                       node |-> id]
                 ELSE LET e == EndSiteLoop(lines, p.idx + 1, EndNode)
                          k == Len(p.nodes) + 1
                      IN  NodeLoop(lines,
                              [p EXCEPT !.idx = e[1],
                                        !.nodes = Append(@, e[2]),
                                        !.nodes[id].Children = Append(@, k)],
                              id)
        ELSE NodeLoop(lines, p, id)

\* ParseNode(ParentNode, OutNode).  ps.idx is CurrentLineIndex: the line
\* that declared the node is Lines[CurrentLineIndex - 1] = lines[ps.idx].
\* ParentNode is not used by the code: no Parent is set here.
ParseNode(lines, ps, ParentNode) ==
    LET Tokens == lines[ps.idx]
        id == Len(ps.nodes) + 1
        named == [NewNode EXCEPT
                     !.Name = IF Len(Tokens) >= 2 THEN JoinTab(Tokens[2])
                              ELSE "Root"]
        p == [ps EXCEPT !.nodes = Append(@, named), !.nullw = @ + 1]
    IN  IF p.idx >= Len(lines)
        THEN [ret |-> FALSE, ps |-> p, node |-> id]
        ELSE IF ~LineIs(lines[p.idx + 1], "{")
        THEN [ret |-> FALSE, ps |-> [p EXCEPT !.idx = @ + 1], node |-> id]
        ELSE NodeLoop(lines, [p EXCEPT !.idx = @ + 1], id)

\* GetNextToken: the first space separated word of the trimmed line
GetNextToken(Line) == IF Line = <<>> THEN <<>> ELSE Line[1]

\* ParseHierarchy, entered with CurrentLineIndex = 1
ParseHierarchy(lines) ==
    LET ps0 == [idx |-> 1, nodes |-> <<>>, nullw |-> 0]
    IN  IF Len(lines) < 2 THEN [ret |-> FALSE, ps |-> ps0, node |-> 0]
        ELSE IF GetNextToken(lines[2]) # <<"ROOT">>
        THEN [ret |-> FALSE, ps |-> [ps0 EXCEPT !.idx = 2], node |-> 0]
        ELSE ParseNode(lines, [ps0 EXCEPT !.idx = 2], 0)

RECURSIVE FindMotion(_, _)
\* the "Find MOTION section" loop of Parse: CurrentLineIndex after it
FindMotion(lines, idx) ==
    IF idx >= Len(lines) THEN idx
    ELSE IF LineIs(lines[idx + 1], "MOTION") THEN idx + 1
    ELSE FindMotion(lines, idx + 1)

\* what is left of a line after Replace(keyword, ""): its other atoms
Without(line, kw) ==
    LET atoms == Flatten(line)
        keep == {i \in 1..Len(atoms) : \A j \in 1..Len(kw) : atoms[i] # kw[j]}
        F[i \in 0..Len(atoms)] ==
            IF i = 0 THEN <<>>
            ELSE IF i \in keep THEN Append(F[i - 1], atoms[i]) ELSE F[i - 1]
    IN  F[Len(atoms)]

RECURSIVE MotionRows(_, _)
\* the "Parse Motion Data" loop: one row per line that has any value
MotionRows(lines, idx) ==
    IF idx >= Len(lines) THEN <<>>
    ELSE LET Parts == Flatten(lines[idx + 1])
             rest == MotionRows(lines, idx + 1)
         IN  IF Len(Parts) = 0 THEN rest
             ELSE <<[i \in 1..Len(Parts) |-> AtodAtom(Parts[i])]>> \o rest

\* ParseMotion, entered with CurrentLineIndex = idx < Lines.Num()
ParseMotion(lines, idx) ==
    LET l1 == lines[idx + 1]
        frames == IF StartsWith(l1, "Frames:")
                  THEN Atoi(Without(l1, <<"Frames:">>)) ELSE 0
    IN  IF idx + 1 >= Len(lines)
        THEN [ret |-> FALSE, NumFrames |-> frames, FrameTime |-> 0,
              MotionData |-> <<>>]
        ELSE LET l2 == lines[idx + 2]
                 ftime == IF StartsWith2(l2, "Frame", "Time:")
                          THEN Atod(Without(l2, <<"Frame", "Time:">>)) ELSE 0
             IN  [ret |-> TRUE, NumFrames |-> frames, FrameTime |-> ftime,
                  MotionData |-> MotionRows(lines, idx + 2)]

\* an FBVHData as default constructed
EmptyData ==
    [ret |-> FALSE, RootNode |-> 0, nodes |-> <<>>, NumFrames |-> 0,
     FrameTime |-> 0, MotionData |-> <<>>, nullw |-> 0]

\* FBVHParser::Parse(OutData): ret is the return value, the other fields
\* are OutData as the call leaves it
FBVHParser_Parse(f) ==
    IF ~f.exists THEN EmptyData
    ELSE IF Len(f.lines) = 0 \/ ~LineIs(f.lines[1], "HIERARCHY") THEN EmptyData
    ELSE
    LET h == ParseHierarchy(f.lines)
        d == [EmptyData EXCEPT !.RootNode = h.node, !.nodes = h.ps.nodes,
                               !.nullw = h.ps.nullw]
    IN  IF ~h.ret THEN d
        ELSE LET idx == FindMotion(f.lines, h.ps.idx)
             IN  IF idx >= Len(f.lines) THEN d
                 ELSE LET m == ParseMotion(f.lines, idx)
                      IN  [d EXCEPT !.ret = m.ret, !.NumFrames = m.NumFrames,
                                    !.FrameTime = m.FrameTime,
                                    !.MotionData = m.MotionData]

(***************************************************************************)
(* Undefined behaviour                                                     *)
(*                                                                         *)
(* Two kinds occur: the writes through a null OutNode in ParseNode, and    *)
(* reads of motion data outside a TArray (TArray::operator[] range checks  *)
(* only in builds with checks).  An operation that runs into either takes  *)
(* one of the outcomes in UB: the process stops (crash), or it goes on,    *)
(* and an out of range read yields the value garbage.                      *)
(***************************************************************************)
GarbageVals == {0, 90}
UB == [crash : BOOLEAN, garbage : GarbageVals]

\* TArray operator[] at 0-based index k: <<value, out of range>>
ReadAt(vals, k, ub) ==
    IF k >= 0 /\ k < Len(vals) THEN <<vals[k + 1], FALSE>>
    ELSE <<ub.garbage, TRUE>>

(***************************************************************************)
(* TMap<FString, V>: the pairs <<key, value>> in insertion order; Add on   *)
(* a key that is present replaces its value.                               *)
(***************************************************************************)
MapHas(m, k) == \E i \in 1..Len(m) : m[i][1] = k
MapGet(m, k) == m[CHOOSE i \in 1..Len(m) : m[i][1] = k][2]
MapAdd(m, k, v) ==
    IF MapHas(m, k)
    THEN [i \in 1..Len(m) |-> IF m[i][1] = k THEN <<k, v>> ELSE m[i]]
    ELSE Append(m, <<k, v>>)
MapKeys(m) == [i \in 1..Len(m) |-> m[i][1]]

(***************************************************************************)
(* Strings with structure.  Names are compared whole everywhere except in  *)
(* EndsWith(TEXT("_") + Name), which looks at the underscore separated     *)
(* pieces of a string.                                                     *)
(***************************************************************************)
\* the pieces of a name between its underscores
Pieces(s) ==
    CASE s = "Left_Hand" -> <<"Left", "Hand">>
      [] s = "Hips_End" -> <<"Hips", "End">>
      [] s = "Spine_End" -> <<"Spine", "End">>
      [] s = "Hand_End" -> <<"Hand", "End">>
      [] s = "Root_End" -> <<"Root", "End">>
      [] s = "Left_Hand_End" -> <<"Left", "Hand", "End">>
      [] OTHER -> <<s>>

\* Key.EndsWith(TEXT("_") + Name), Key given by its pieces
EndsWithUnderscore(keyPieces, name) ==
    LET n == Pieces(name)
    IN  /\ Len(keyPieces) > Len(n)
        /\ SubSeq(keyPieces, Len(keyPieces) - Len(n) + 1, Len(keyPieces)) = n

(***************************************************************************)
(* Traversals of an FBVHData tree                                          *)
(***************************************************************************)
RECURSIVE CollectChildrenFirst(_, _)
\* the subtrees of the children first, the node after them
CollectChildrenFirst(nodes, id) ==
    IF id = 0 THEN <<>>
    ELSE LET kids == nodes[id].Children
             F[i \in 0..Len(kids)] ==
                 IF i = 0 THEN <<>>
                 ELSE F[i - 1] \o CollectChildrenFirst(nodes, kids[i])
         IN  F[Len(kids)] \o <<id>>

RECURSIVE Collect(_, _)
\* FNodeCollector::Collect: the node, then each child's subtree in order
Collect(nodes, id) ==
    IF id = 0 THEN <<>>
    ELSE LET kids == nodes[id].Children
             F[i \in 0..Len(kids)] ==
                 IF i = 0 THEN <<id>> ELSE F[i - 1] \o Collect(nodes, kids[i])
         IN  F[Len(kids)]

\* the FlatNodes loop of FactoryCreateFile: the nodes with their
\* ChannelStartIndex set
AssignFlat(nodes, flat) ==
    LET F[i \in 0..Len(flat)] ==
            IF i = 0 THEN <<nodes, 0>>
            ELSE <<[F[i - 1][1] EXCEPT
                       ![flat[i]].ChannelStartIndex = F[i - 1][2]],
                   F[i - 1][2] + Len(nodes[flat[i]].Channels)>>
    IN  F[Len(flat)][1]

\* the running index advances by one per node instead of by its channels
VisitStepOne(n) == 1

\* InOutChannelIdx += Node->Channels.Num()
VisitStep(n) == Len(n.Channels)

RECURSIVE Visit(_, _, _)
\* FChannelVisitor::Visit(Node, InOutChannelIdx): <<nodes, InOutChannelIdx>>
Visit(nodes, id, idx) ==
    LET kids == nodes[id].Children
        F[i \in 0..Len(kids)] ==
            IF i = 0
            THEN <<[nodes EXCEPT ![id].ChannelStartIndex = idx],
                   idx + VisitStep(nodes[id])>>
            ELSE Visit(F[i - 1][1], kids[i], F[i - 1][2])
    IN  F[Len(kids)]

RECURSIVE StackOrder(_, _)
\* while (Stack.Num() > 0) { Node = Stack.Pop(); ...; push the children }:
\* the order in which the nodes are popped
StackOrder(nodes, stack) ==
    IF stack = <<>> THEN <<>>
    ELSE LET id == stack[Len(stack)]
         IN  <<id>> \o StackOrder(nodes,
                 SubSeq(stack, 1, Len(stack) - 1) \o nodes[id].Children)

(***************************************************************************)
(* Channels to transform, FBVHData paths                                   *)
(***************************************************************************)
IsPos(c) == c \in {"Xposition", "Yposition", "Zposition"}
AxisOf(c) ==
    CASE c \in {"Xposition", "Xrotation"} -> 1
      [] c \in {"Yposition", "Yrotation"} -> 2
      [] c \in {"Zposition", "Zrotation"} -> 3
      [] OTHER -> 0
IsRot(c) == c \in {"Xrotation", "Yrotation", "Zrotation"}

\* the values a node's channels read from one frame: FrameValues
\* [Node->ChannelStartIndex + i], each <<value, out of range>>.  A frame
\* index outside MotionData makes every read out of range.
ChannelReads(Data, node, Frame, ub) ==
    LET inFrame == Frame < Len(Data.MotionData)
        FrameValues == IF inFrame THEN Data.MotionData[Frame + 1] ELSE <<>>
    IN  [i \in 1..Len(node.Channels) |->
            ReadAt(FrameValues, node.ChannelStartIndex + i - 1, ub)]

\* the position switch: ChanPos and bHasPos after all channels
ChanPosOf(chans, vals) ==
    LET F[i \in 0..Len(chans)] ==
            IF i = 0 THEN <<ZeroVector, FALSE>>
            ELSE IF IsPos(chans[i])
            THEN <<[F[i - 1][1] EXCEPT ![AxisOf(chans[i])] = vals[i][1]], TRUE>>
            ELSE F[i - 1]
    IN  F[Len(chans)]

\* if (bHasPos) LocalPos = ChanPos, LocalPos starting as Node->Offset
LocalPosOf(node, vals) ==
    LET cp == ChanPosOf(node.Channels, vals)
    IN  IF cp[2] THEN cp[1] ELSE node.Offset

\* FactoryCreateFile, second pass: ChanRot per channel, multiplied on the
\* right unless it is the identity
FactoryRot(chans, vals) ==
    LET F[i \in 0..Len(chans)] ==
            IF i = 0 THEN QuatIdentity
            ELSE LET ChanRot == IF IsRot(chans[i])
                                THEN AxisQuat(AxisOf(chans[i]), vals[i][1])
                                ELSE QuatIdentity
                 IN  IF ~IsIdentity(ChanRot) THEN QuatMul(F[i - 1], ChanRot)
                     ELSE F[i - 1]
    IN  F[Len(chans)]

\* GetAnimationPayloadData: LocalRot = LocalRot * FQuat(axis, value) in the
\* channel switch
PayloadRot(chans, vals) ==
    LET F[i \in 0..Len(chans)] ==
            IF i = 0 THEN QuatIdentity
            ELSE IF IsRot(chans[i])
            THEN QuatMul(F[i - 1], AxisQuat(AxisOf(chans[i]), vals[i][1]))
            ELSE F[i - 1]
    IN  F[Len(chans)]

\* one frame of one node in FactoryCreateFile: the source space values and
\* FTransform(ConvertRot(LocalRot), ConvertPos(LocalPos), One)
FactoryFrame(Data, node, Frame, ub) ==
    LET vals == ChannelReads(Data, node, Frame, ub)
        pos == LocalPosOf(node, vals)
        rot == FactoryRot(node.Channels, vals)
    IN  [vals |-> vals, LocalPos |-> pos, LocalRot |-> rot,
         Location |-> ConvertPos(pos), Rotation |-> ConvertRot(rot)]

\* one frame of one node in GetAnimationPayloadData: UEPos and UERot are
\* written out in place there
PayloadFrame(Data, node, Frame, ub) ==
    LET vals == ChannelReads(Data, node, Frame, ub)
        pos == LocalPosOf(node, vals)
        rot == PayloadRot(node.Channels, vals)
    IN  [vals |-> vals, LocalPos |-> pos, LocalRot |-> rot,
         Location |-> <<pos[1], 0 - pos[3], pos[2]>>,
         Rotation |-> [x |-> rot.x, y |-> 0 - rot.z, z |-> rot.y,
                       w |-> rot.w, e |-> rot.e]]

\* the frames 0 .. NumFrames - 1 of a track
FrameRange(Data) == 1..(IF Data.NumFrames > 0 THEN Data.NumFrames ELSE 0)

\* some read of a track was out of range
TrackOob(track) ==
    \E f \in 1..Len(track) : \E i \in 1..Len(track[f].vals) : track[f].vals[i][2]

(***************************************************************************)
(* Operations on FBVHData: FactoryCreateFile, Translate,                   *)
(* GetAnimationPayloadData                                                 *)
(***************************************************************************)
\* a payload key or unique id, kept as its underscore separated pieces
KeyOf(Filename, Name) == Pieces(Filename) \o Pieces(Name)

RECURSIVE BuildSkeletonHierarchy(_, _, _)
\* BuildSkeletonHierarchy: the bones added to the modifier, in order
BuildSkeletonHierarchy(nodes, id, ParentName) ==
    IF id = 0 THEN <<>>
    ELSE LET Node == nodes[id]
             BoneName == IF Node.Name = "" THEN "Joint" ELSE Node.Name
             kids == Node.Children
             F[i \in 0..Len(kids)] ==
                 IF i = 0
                 THEN <<[Name |-> BoneName, Parent |-> ParentName,
                         Node |-> id, Location |-> ConvertPos(Node.Offset)]>>
                 ELSE F[i - 1] \o BuildSkeletonHierarchy(nodes, kids[i], BoneName)
         IN  F[Len(kids)]

\* OutBoneMap after BuildSkeletonHierarchy: Node->Name -> BoneName
BoneMapOf(nodes, bones) ==
    LET F[i \in 0..Len(bones)] ==
            IF i = 0 THEN <<>>
            ELSE MapAdd(F[i - 1], nodes[bones[i].Node].Name, bones[i].Name)
    IN  F[Len(bones)]

\* a TMap Name -> node filled by Add in the given node order
NameMapOf(nodes, order) ==
    LET F[i \in 0..Len(order)] ==
            IF i = 0 THEN <<>>
            ELSE MapAdd(F[i - 1], nodes[order[i]].Name, order[i])
    IN  F[Len(order)]

\* UBVHFactory::FactoryCreateFile.  The skeleton, mesh and asset registry
\* calls are the engine's; what is kept of them is the bones handed to the
\* reference skeleton and the keys handed to SetBoneTrackKeys.
\* Data is what Parser.Parse(Data) left.
FactoryCreateFileFrom(Data, ub) ==
        IF Data.nullw > 0 /\ ub.crash
        THEN [op |-> "FactoryCreateFile", ret |-> "crash", Data |-> Data]
        ELSE IF ~Data.ret \/ Data.RootNode = 0
        THEN [op |-> "FactoryCreateFile", ret |-> "null", Data |-> Data]
        ELSE
        LET FlatNodes == Collect(Data.nodes, Data.RootNode)
            Bones == BuildSkeletonHierarchy(Data.nodes, Data.RootNode, "None")
            BoneMap == BoneMapOf(Data.nodes, Bones)
            nodes == AssignFlat(Data.nodes, FlatNodes)
            NodeNameMap == NameMapOf(nodes, FlatNodes)
            Tracks ==
                [b \in 1..Len(BoneMap) |->
                    LET Node == MapGet(NodeNameMap, BoneMap[b][1])
                    IN  [Bone |-> BoneMap[b][2], Node |-> Node,
                         Keys |-> [fr \in FrameRange(Data) |->
                                      FactoryFrame(Data, nodes[Node], fr - 1, ub)]]]
            oob == \E b \in 1..Len(Tracks) : TrackOob(Tracks[b].Keys)
        IN  IF oob /\ ub.crash
            THEN [op |-> "FactoryCreateFile", ret |-> "crash", Data |-> Data]
            ELSE [op |-> "FactoryCreateFile", ret |-> "asset", Data |-> Data,
                  nodes |-> nodes, FlatNodes |-> FlatNodes, Bones |-> Bones,
                  BoneMap |-> BoneMap, Tracks |-> Tracks, oob |-> oob]

FactoryCreateFileResult(f, ub) == FactoryCreateFileFrom(FBVHParser_Parse(f), ub)

\* UInterchangeBVHTranslator::Translate: the scene nodes and the payload
\* key map handed to the node container
\* Data is what Parser.Parse(Data) left.
TranslateFrom(f, Data, ub) ==
        IF Data.nullw > 0 /\ ub.crash
        THEN [op |-> "Translate", ret |-> "crash", Data |-> Data]
        ELSE IF ~Data.ret \/ Data.RootNode = 0
        THEN [op |-> "Translate", ret |-> "false", Data |-> Data]
        ELSE
        LET order == StackOrder(Data.nodes, <<Data.RootNode>>)
            SceneNodes ==
                [i \in 1..Len(order) |->
                    LET Node == Data.nodes[order[i]]
                    IN  [Uid |-> Node.Name, Name |-> Node.Name, Node |-> order[i],
                         Location |-> <<Node.Offset[1], 0 - Node.Offset[3],
                                        Node.Offset[2]>>,
                         ParentUid |-> IF Node.Parent # 0
                                       THEN Data.nodes[Node.Parent].Name
                                       ELSE ""]]
            Keys[i \in 0..Len(order)] ==
                IF i = 0 THEN <<>>
                ELSE MapAdd(Keys[i - 1], Data.nodes[order[i]].Name,
                            KeyOf(f.name, Data.nodes[order[i]].Name))
        IN  [op |-> "Translate", ret |-> "true", Data |-> Data,
             SceneNodes |-> SceneNodes, PayloadKeys |-> Keys[Len(order)]]

TranslateResult(f, ub) ==
    IF ~f.exists THEN [op |-> "Translate", ret |-> "false"]
    ELSE TranslateFrom(f, FBVHParser_Parse(f), ub)

\* the node name a payload key resolves to: the first key of NodeMap, in
\* its iteration order, such that PayloadKey.EndsWith("_" + key); "" if none
ResolveKey(NodeMap, PayloadKey) ==
    LET hits == {i \in 1..Len(NodeMap) :
                    EndsWithUnderscore(PayloadKey, NodeMap[i][1])}
    IN  IF hits = {} THEN ""
        ELSE NodeMap[CHOOSE i \in hits : \A j \in hits : i <= j][1]

\* UInterchangeBVHTranslator::GetAnimationPayloadData(PayloadQueries).
\* Data is what Parser.Parse(Data) left.
GetAnimationPayloadDataFrom(Data, PayloadQueries, ub) ==
        IF Data.nullw > 0 /\ ub.crash
        THEN [op |-> "GetAnimationPayloadData", ret |-> "crash", Data |-> Data]
        ELSE IF ~Data.ret
        THEN [op |-> "GetAnimationPayloadData", ret |-> "empty", Data |-> Data,
              PayloadDatas |-> <<>>]
        ELSE
        LET \* first loop: pops the root only, CurrentChannelIdx stays 0
            n0 == IF Data.RootNode = 0 THEN Data.nodes
                  ELSE [Data.nodes EXCEPT ![Data.RootNode].ChannelStartIndex = 0]
            \* FChannelVisitor::Visit(Data.RootNode, ChIdx)
            nodes == IF Data.RootNode = 0 THEN n0
                     ELSE Visit(n0, Data.RootNode, 0)[1]
            \* NodeMap.Empty() and the refill loop
            NodeMap == IF Data.RootNode = 0 THEN <<>>
                       ELSE NameMapOf(nodes,
                                StackOrder(nodes, <<Data.RootNode>>))
            Answer(q) ==
                LET NodeName == ResolveKey(NodeMap, q)
                IN  IF NodeName = "" \/ ~MapHas(NodeMap, NodeName) THEN <<>>
                    ELSE LET Node == MapGet(NodeMap, NodeName)
                         IN  <<[Key |-> q, NodeName |-> NodeName, Node |-> Node,
                                Transforms |->
                                    [fr \in FrameRange(Data) |->
                                        PayloadFrame(Data, nodes[Node],
                                                     fr - 1, ub)]]>>
            All[i \in 0..Len(PayloadQueries)] ==
                IF i = 0 THEN <<>> ELSE All[i - 1] \o Answer(PayloadQueries[i])
            PayloadDatas == All[Len(PayloadQueries)]
            oob == \E i \in 1..Len(PayloadDatas) :
                       TrackOob(PayloadDatas[i].Transforms)
        IN  IF oob /\ ub.crash
            THEN [op |-> "GetAnimationPayloadData", ret |-> "crash",
                  Data |-> Data]
            ELSE [op |-> "GetAnimationPayloadData", ret |-> "payload",
                  Data |-> Data, nodes |-> nodes, NodeMap |-> NodeMap,
                  PayloadDatas |-> PayloadDatas, oob |-> oob]

GetAnimationPayloadDataResult(f, PayloadQueries, ub) ==
    GetAnimationPayloadDataFrom(FBVHParser_Parse(f), PayloadQueries, ub)

(***************************************************************************)
(* FInterchangeBVHParser (InterchangeBVHParser.h / .cpp)                   *)
(*                                                                         *)
(* Joints and channels are the elements of the arrays Joints and Channels; *)
(* a pointer to one is its 1-based position and 0 is nullptr.              *)
(***************************************************************************)
\* the object after Clear(), and as constructed
ClearedParser ==
    [Joints |-> <<>>, Channels |-> <<>>, JointMap |-> <<>>,
     NodeUidToJointMap |-> <<>>, MotionData |-> <<>>, FrameTime |-> 0,
     NumFrames |-> 0]

\* the object emptied but for NumFrames and FrameTime
ClearKeepsFrames(P) ==
    [P EXCEPT !.Channels = <<>>, !.Joints = <<>>, !.JointMap = <<>>,
              !.NodeUidToJointMap = <<>>, !.MotionData = <<>>]

\* FInterchangeBVHParser::Clear(): the arrays and maps emptied, NumFrames
\* and FrameTime 0
Clear(P) ==
    [P EXCEPT !.Channels = <<>>, !.Joints = <<>>, !.JointMap = <<>>,
              !.NodeUidToJointMap = <<>>, !.MotionData = <<>>,
              !.NumFrames = 0, !.FrameTime = 0]

\* FInterchangeBVHJoint as constructed
NewJoint ==
    [Name |-> "", Index |-> 0, Parent |-> 0, Children |-> <<>>,
     Offset |-> ZeroVector, bHasSite |-> FALSE, Site |-> ZeroVector,
     Channels |-> <<>>]

\* Tokens[i] for a 0-based i below Tokens.Num(), else the empty FString
TokenAt(Tokens, i) == IF i < Len(Tokens) THEN Tokens[i + 1] ELSE ""
\* TokenIndex after GetNextToken()
Advance(Tokens, i) == IF i < Len(Tokens) THEN i + 1 ELSE i

\* the EInterchangeBVHChannelEnum of a channel keyword, "" if it has none
ChannelEnum(ChannelType) ==
    CASE ChannelType = "Xposition" -> "X_POSITION"
      [] ChannelType = "Yposition" -> "Y_POSITION"
      [] ChannelType = "Zposition" -> "Z_POSITION"
      [] ChannelType = "Xrotation" -> "X_ROTATION"
      [] ChannelType = "Yrotation" -> "Y_ROTATION"
      [] ChannelType = "Zrotation" -> "Z_ROTATION"
      [] OTHER -> ""

RECURSIVE ChannelLoop(_, _, _)
\* for (i = 0; i < NumChannels; ++i) of the CHANNELS branch, n rounds left
ChannelLoop(Tokens, st, n) ==
    IF n <= 0 THEN st
    ELSE LET Type == ChannelEnum(TokenAt(Tokens, st.idx))
             i1 == Advance(Tokens, st.idx)
             Channel == [Joint |-> st.Cur, Type |-> Type,
                         Index |-> Len(st.Channels)]
             k == Len(st.Channels) + 1
         IN  IF Type = ""
             THEN [st EXCEPT !.idx = i1, !.failed = TRUE]
             ELSE ChannelLoop(Tokens,
                      [st EXCEPT !.idx = i1,
                                 !.Channels = Append(@, Channel),
                                 !.Joints = IF st.Cur = 0 THEN @
                                            ELSE [@ EXCEPT ![st.Cur].Channels =
                                                               Append(@, k)]],
                      n - 1)

\* one round of the first while (TokenIndex < Tokens.Num()) loop of Parse;
\* st.done is set by the break at MOTION
HierarchyStep(Tokens, st) ==
    LET Token == Tokens[st.idx + 1]
        s == [st EXCEPT !.idx = @ + 1]
    IN  IF Token = "ROOT" \/ Token = "JOINT"
        THEN LET k == Len(s.Joints) + 1
                 J == [NewJoint EXCEPT !.Index = Len(s.Joints),
                                       !.Parent = s.Cur,
                                       !.Name = TokenAt(Tokens, s.idx)]
                 added == Append(s.Joints, J)
             IN  [s EXCEPT !.idx = Advance(Tokens, s.idx),
                           !.Joints = IF s.Cur = 0 THEN added
                                      ELSE [added EXCEPT
                                               ![s.Cur].Children =
                                                   Append(@, k)],
                           !.JointMap = MapAdd(@, J.Name, k),
                           !.Cur = k,
                           !.bIsSite = FALSE]
        ELSE IF Token = "End"
        THEN [s EXCEPT !.idx = Advance(Tokens, s.idx), !.bIsSite = TRUE]
        ELSE IF Token = "{"
        THEN IF ~s.bIsSite THEN [s EXCEPT !.Stack = Append(@, s.Cur)]
             ELSE s
        ELSE IF Token = "}"
        THEN IF s.bIsSite THEN [s EXCEPT !.bIsSite = FALSE]
             ELSE IF Len(s.Stack) > 0
             THEN [s EXCEPT !.Cur = s.Stack[Len(s.Stack)],
                            !.Stack = SubSeq(@, 1, Len(@) - 1)]
             ELSE s
        ELSE IF Token = "OFFSET"
        THEN LET i1 == Advance(Tokens, s.idx)
                 i2 == Advance(Tokens, i1)
                 v == <<AtodAtom(TokenAt(Tokens, s.idx)),
                        AtodAtom(TokenAt(Tokens, i1)),
                        AtodAtom(TokenAt(Tokens, i2))>>
                 s3 == [s EXCEPT !.idx = Advance(Tokens, i2)]
             IN  IF s.bIsSite /\ s.Cur # 0
                 THEN [s3 EXCEPT !.Joints[s.Cur].bHasSite = TRUE,
                                 !.Joints[s.Cur].Site = v]
                 ELSE IF s.Cur # 0
                 THEN [s3 EXCEPT !.Joints[s.Cur].Offset = v]
                 ELSE s3
        ELSE IF Token = "CHANNELS"
        THEN ChannelLoop(Tokens,
                 [s EXCEPT !.idx = Advance(Tokens, s.idx)],
                 AtodAtom(TokenAt(Tokens, s.idx)))
        ELSE IF Token = "MOTION" THEN [s EXCEPT !.done = TRUE]
        ELSE s

RECURSIVE HierarchyLoop(_, _)
\* the first while (TokenIndex < Tokens.Num()) loop of Parse, left at the
\* end of the tokens, at MOTION, or by the return false of CHANNELS
HierarchyLoop(Tokens, st) ==
    IF st.idx >= Len(Tokens) \/ st.failed \/ st.done THEN st
    ELSE HierarchyLoop(Tokens, HierarchyStep(Tokens, st))

RECURSIVE MotionHeader(_, _)
\* the "Parse Motion Section" loop: m is [idx, NumFrames, FrameTime]
MotionHeader(Tokens, m) ==
    IF m.idx >= Len(Tokens) THEN m
    ELSE LET Token == Tokens[m.idx + 1]
             i1 == m.idx + 1
         IN  IF Token = "Frames:"
             THEN MotionHeader(Tokens,
                      [m EXCEPT !.idx = Advance(Tokens, i1),
                                !.NumFrames = AtodAtom(TokenAt(Tokens, i1))])
             ELSE IF Token = "Frame" /\ TokenAt(Tokens, i1) = "Time:"
             THEN LET i2 == Advance(Tokens, i1)
                  IN  [m EXCEPT !.idx = Advance(Tokens, i2),
                                !.FrameTime = AtodAtom(TokenAt(Tokens, i2))]
             ELSE MotionHeader(Tokens, [m EXCEPT !.idx = i1])

\* the row width used for the motion data
RowWidthZero(Channels) == 0

\* Channels.Num(), the row width of MotionData
RowWidth(Channels) == Len(Channels)

\* the values stored by the final for loop: TotalValues of them, fewer if
\* the tokens run out
MotionValues(Tokens, idx, TotalValues) ==
    LET avail == Len(Tokens) - idx
        n == IF TotalValues < avail THEN TotalValues ELSE avail
    IN  [i \in 1..(IF n > 0 THEN n ELSE 0) |-> AtodAtom(Tokens[idx + i])]

\* FInterchangeBVHParser::Parse(Filename) called on the object P:
\* <<return value, the object>>
InterchangeParseOn(P, f) ==
    LET P0 == Clear(P)
    IN  IF ~f.exists THEN <<FALSE, P0>>
        ELSE
        LET Tokens == Flatten(Flatten(f.lines))
            found == {i \in 1..Len(Tokens) : Tokens[i] = "HIERARCHY"}
        IN  IF found = {} THEN <<FALSE, P0>>
            ELSE
            LET HierarchyIndex ==
                    (CHOOSE i \in found : \A j \in found : i <= j) - 1
                st == HierarchyLoop(Tokens,
                          [idx |-> HierarchyIndex + 1, Joints |-> P0.Joints,
                           Channels |-> P0.Channels, JointMap |-> P0.JointMap,
                           Stack |-> <<>>, Cur |-> 0, bIsSite |-> FALSE,
                           failed |-> FALSE, done |-> FALSE])
            IN  IF st.failed
                THEN <<FALSE, Clear([P0 EXCEPT !.Joints = st.Joints,
                                               !.Channels = st.Channels,
                                               !.JointMap = st.JointMap])>>
                ELSE
                LET m == MotionHeader(Tokens,
                             [idx |-> st.idx, NumFrames |-> P0.NumFrames,
                              FrameTime |-> P0.FrameTime])
                    TotalValues == m.NumFrames * RowWidth(st.Channels)
                IN  <<TRUE,
                      [Joints |-> st.Joints, Channels |-> st.Channels,
                       JointMap |-> st.JointMap,
                       NodeUidToJointMap |-> P0.NodeUidToJointMap,
                       MotionData |->
                           P0.MotionData
                           \o MotionValues(Tokens, m.idx, TotalValues),
                       FrameTime |-> m.FrameTime, NumFrames |-> m.NumFrames]>>

\* Parse(Filename) called on a freshly constructed object
InterchangeParse(f) == InterchangeParseOn(ClearedParser, f)

\* FString::FromInt for the counts that occur
FromInt(n) ==
    CASE n = 0 -> "0" [] n = 1 -> "1" [] n = 2 -> "2" [] n = 3 -> "3"
      [] n = 4 -> "4" [] n = 5 -> "5" [] n = 6 -> "6" [] OTHER -> "many"

\* how many of the first i - 1 joints carry the name of joint i: the value
\* of NodeNameCount[Name] when joint i is reached
NameCountBefore(Joints, i) ==
    Cardinality({j \in 1..(i - 1) : Joints[j].Name = Joints[i].Name})

\* "SceneNode_" + Name + "_" + Count, as pieces
NodeUidOf(Joints, i) ==
    <<"SceneNode">> \o Pieces(Joints[i].Name)
        \o <<FromInt(NameCountBefore(Joints, i))>>

\* the "Populate NodeUidToJointMap" loop of LoadBVHFile
UidMapOf(Joints) ==
    LET F[i \in 0..Len(Joints)] ==
            IF i = 0 THEN <<>>
            ELSE MapAdd(F[i - 1], NodeUidOf(Joints, i), i)
    IN  F[Len(Joints)]

\* for (Pair : NodeUidToJointMap) if (Pair.Value == Joint): the first key
\* whose value is the joint, <<>> (the empty FString) if there is none
UidOfJoint(UidMap, j) ==
    LET hits == {i \in 1..Len(UidMap) : UidMap[i][2] = j}
    IN  IF hits = {} THEN <<>>
        ELSE UidMap[CHOOSE i \in hits : \A k \in hits : i <= k][1]

\* the location LoadBVHFile gives a scene node
SceneLocation(Offset) == <<Offset[1], 0 - Offset[2], Offset[3]>>

\* FInterchangeBVHParser::LoadBVHFile: <<what it hands out, the object>>.
\* The factory nodes it creates are the engine's; what is kept is the scene
\* node of each joint and the payload key map.
\* r is what Parse(Filename) returned and left.
LoadBVHFileFrom(r) ==
    LET P == r[2]
    IN  IF ~r[1] THEN <<[op |-> "LoadBVHFile", ret |-> FALSE], P>>
        ELSE IF Len(P.Joints) = 0
        THEN <<[op |-> "LoadBVHFile", ret |-> FALSE], P>>
        ELSE
        LET UidMap == UidMapOf(P.Joints)
            withUid == {i \in 1..Len(P.Joints) : UidOfJoint(UidMap, i) # <<>>}
            order == [k \in 1..Cardinality(withUid) |->
                         CHOOSE i \in withUid :
                             Cardinality({j \in withUid : j < i}) = k - 1]
            SceneNodes ==
                [k \in 1..Len(order) |->
                    LET Joint == P.Joints[order[k]]
                    IN  [Uid |-> UidOfJoint(UidMap, order[k]),
                         Name |-> Joint.Name, Joint |-> order[k],
                         Location |-> SceneLocation(Joint.Offset),
                         ParentUid |-> IF Joint.Parent # 0
                                       THEN UidOfJoint(UidMap, Joint.Parent)
                                       ELSE <<>>]]
        IN  <<[op |-> "LoadBVHFile", ret |-> TRUE,
               RootUid |-> UidOfJoint(UidMap, 1), SceneNodes |-> SceneNodes],
              [P EXCEPT !.NodeUidToJointMap = UidMap]>>

LoadBVHFileResult(P, f) == LoadBVHFileFrom(InterchangeParseOn(P, f))

\* GetTransform: Euler from the rotation channels (the last channel of an
\* axis wins), then Rotation = RotationZ * RotationY * RotationX
EulerRotation(Joint, Channels, vals) ==
    LET E[i \in 0..Len(Joint.Channels)] ==
            IF i = 0 THEN ZeroVector
            ELSE LET T == Channels[Joint.Channels[i]].Type
                 IN  IF T = "Z_ROTATION"
                     THEN [E[i - 1] EXCEPT ![3] = 0 - vals[i][1]]
                     ELSE IF T = "Y_ROTATION"
                     THEN [E[i - 1] EXCEPT ![2] = vals[i][1]]
                     ELSE IF T = "X_ROTATION"
                     THEN [E[i - 1] EXCEPT ![1] = 0 - vals[i][1]]
                     ELSE E[i - 1]
        Euler == E[Len(Joint.Channels)]
    IN  QuatMul(QuatMul(AxisQuat(3, Euler[3]), AxisQuat(2, Euler[2])),
                AxisQuat(1, Euler[1]))

\* GetTransform: LocalOffset, each position channel overwriting one
\* component of the converted offset
LocalOffsetOf(Joint, Channels, vals) ==
    LET F[i \in 0..Len(Joint.Channels)] ==
            IF i = 0
            THEN <<Joint.Offset[1], 0 - Joint.Offset[2], Joint.Offset[3]>>
            ELSE LET T == Channels[Joint.Channels[i]].Type
                 IN  IF T = "X_POSITION"
                     THEN [F[i - 1] EXCEPT ![1] = vals[i][1]]
                     ELSE IF T = "Y_POSITION"
                     THEN [F[i - 1] EXCEPT ![2] = 0 - vals[i][1]]
                     ELSE IF T = "Z_POSITION"
                     THEN [F[i - 1] EXCEPT ![3] = vals[i][1]]
                     ELSE F[i - 1]
    IN  F[Len(Joint.Channels)]

\* the frame index NumFrames passes as well
FrameInRangeInclusive(FrameIndex, NumFrames) ==
    ~(FrameIndex < 0 \/ FrameIndex > NumFrames)

\* the negation of FrameIndex < 0 || FrameIndex >= NumFrames
FrameInRange(FrameIndex, NumFrames) ==
    ~(FrameIndex < 0 \/ FrameIndex >= NumFrames)

\* GetJointFromNodeUid: the joint NodeUidToJointMap has for the uid, else
\* nullptr
GetJointFromNodeUid(P, NodeUid) ==
    IF MapHas(P.NodeUidToJointMap, NodeUid)
    THEN MapGet(P.NodeUidToJointMap, NodeUid) ELSE 0

\* FInterchangeBVHParser::GetTransform(FrameIndex, NodeUid).  The result
\* records the arguments and, in vals, the reads of MotionData the call made.
GetTransformResult(P, FrameIndex, NodeUid, ub) ==
    LET Joint == GetJointFromNodeUid(P, NodeUid)
    IN  IF Joint = 0 \/ ~FrameInRange(FrameIndex, P.NumFrames)
        THEN [op |-> "GetTransform", ret |-> "identity", NodeUid |-> NodeUid,
              FrameIndex |-> FrameIndex, vals |-> <<>>,
              Location |-> ZeroVector, Rotation |-> QuatIdentity]
        ELSE
        LET J == P.Joints[Joint]
            base == FrameIndex * Len(P.Channels)
            \* &MotionData[base], then FrameData[Channel->Index]
            baseOob == ReadAt(P.MotionData, base, ub)[2]
            vals == [i \in 1..Len(J.Channels) |->
                        ReadAt(P.MotionData,
                               base + P.Channels[J.Channels[i]].Index, ub)]
            oob == baseOob \/ \E i \in 1..Len(vals) : vals[i][2]
        IN  IF oob /\ ub.crash
            THEN [op |-> "GetTransform", ret |-> "crash", Joint |-> Joint,
                  NodeUid |-> NodeUid, FrameIndex |-> FrameIndex]
            ELSE [op |-> "GetTransform", ret |-> "transform", Joint |-> Joint,
                  NodeUid |-> NodeUid, FrameIndex |-> FrameIndex,
                  vals |-> vals, oob |-> oob,
                  Location |-> LocalOffsetOf(J, P.Channels, vals),
                  Rotation |-> EulerRotation(J, P.Channels, vals)]

(***************************************************************************)
(* The files the operations are run on                                     *)
(*                                                                         *)
(* A joint of a shape is [name, offset, chans, kids, site]: offset and     *)
(* site are tuples of numerals (site = <<>>: no End Site block), chans the *)
(* channel keywords, kids the child joints.  A generated file writes the   *)
(* hierarchy in the usual layout, one declaration per line, followed by    *)
(* MOTION, "Frames: F", "Frame Time: 1" and F rows of values.              *)
(***************************************************************************)
Jt(name, offset, chans, kids, site) ==
    [name |-> name, offset |-> offset, chans |-> chans, kids |-> kids,
     site |-> site]

XYZPos == <<"Xposition", "Yposition", "Zposition">>

\* the catalogue of hierarchies
Shapes ==
    << \* a root with position and rotation channels and an End Site
       Jt("Hips", <<"1", "2", "3">>,
          XYZPos \o <<"Zrotation", "Xrotation", "Yrotation">>, <<>>,
          <<"0", "5", "0">>),
       \* the same two rotation channels in both orders
       Jt("Hips", <<"1", "2", "3">>, <<"Xrotation", "Yrotation">>,
          <<Jt("Spine", <<"0", "5", "0">>, <<"Yrotation", "Xrotation">>, <<>>,
               <<"0", "7", "0">>)>>, <<>>),
       \* siblings and a grandchild, one position channel alone
       Jt("Hips", <<"1", "2", "3">>, <<"Xposition">>,
          <<Jt("Spine", <<"3", "2", "1">>, <<"Zrotation">>,
               <<Jt("Hand", <<"0", "5", "0">>,
                    <<"Xrotation", "Yrotation", "Zrotation">>, <<>>, <<>>)>>,
               <<>>),
            Jt("Left_Hand", <<"5", "0", "7">>, <<"Yposition", "Yrotation">>,
               <<>>, <<"1", "0", "0">>)>>, <<>>),
       \* a keyword outside the vocabulary between two rotation channels
       Jt("Hips", <<"1", "2", "3">>, <<"Xrotation", "Xscale", "Yrotation">>,
          <<Jt("Spine", <<"0", "5", "0">>, <<"Zrotation">>, <<>>, <<>>)>>,
          <<>>),
       \* the single joint of the minimal scenario
       Jt("Hips", <<"0", "0", "0">>, XYZPos, <<>>, <<>>),
       \* a root without channels
       Jt("Hips", <<"1", "2", "3">>, <<>>,
          <<Jt("Spine", <<"0", "5", "0">>, <<"Zrotation", "Yrotation">>, <<>>,
               <<"0", "5", "0">>)>>, <<>>),
       \* two siblings of one name
       Jt("Hips", <<"0", "0", "0">>, <<"Yrotation">>,
          <<Jt("Spine", <<"1", "2", "3">>, <<"Xrotation">>, <<>>, <<>>),
            Jt("Spine", <<"3", "2", "1">>, <<"Zrotation">>, <<>>, <<>>)>>,
          <<>>) >>

\* the value written at each place of the motion rows, cyclically
Patterns ==
    << <<"90">>, <<"90", "180", "270">>, <<"0", "90", "360", "-90", "180">>,
       <<"0">> >>

RECURSIVE JointLines(_, _)
\* the lines of a joint block declared with keyword kw
JointLines(kw, j) ==
    LET kids[i \in 0..Len(j.kids)] ==
            IF i = 0 THEN <<>>
            ELSE kids[i - 1] \o JointLines("JOINT", j.kids[i])
    IN  <<Sp(<<kw, j.name>>), Sp(<<"{">>), Sp(<<"OFFSET">> \o j.offset)>>
        \o (IF j.chans = <<>> THEN <<>>
            ELSE <<Sp(<<"CHANNELS", FromInt(Len(j.chans))>> \o j.chans)>>)
        \o kids[Len(j.kids)]
        \o (IF j.site = <<>> THEN <<>>
            ELSE <<Sp(<<"End", "Site">>), Sp(<<"{">>),
                   Sp(<<"OFFSET">> \o j.site), Sp(<<"}">>)>>)
        \o <<Sp(<<"}">>)>>

RECURSIVE ShapeChannels(_)
\* the channel keywords of a shape in the order the file declares them
ShapeChannels(j) ==
    LET kids[i \in 0..Len(j.kids)] ==
            IF i = 0 THEN <<>> ELSE kids[i - 1] \o ShapeChannels(j.kids[i])
    IN  j.chans \o kids[Len(j.kids)]

\* row fr (0-based) of a file of width W written with pattern pat
RowLine(fr, W, pat) ==
    Sp([c \in 1..W |-> pat[((fr * W + c - 1) % Len(pat)) + 1]])

\* the file of a shape with F rows
FileOf(shape, F, pat) ==
    LET W == Len(ShapeChannels(shape))
    IN  [exists |-> TRUE, name |-> "take",
         lines |-> <<Sp(<<"HIERARCHY">>)>> \o JointLines("ROOT", shape)
                   \o <<Sp(<<"MOTION">>), Sp(<<"Frames:", FromInt(F)>>),
                        Sp(<<"Frame", "Time:", "1">>)>>
                   \o [fr \in 1..F |-> RowLine(fr - 1, W, pat)]]

\* the file without its i-th line
DropLine(f, i) ==
    [f EXCEPT !.lines = SubSeq(@, 1, i - 1) \o SubSeq(@, i + 1, Len(@))]

\* the file with one more line before its i-th line
InsertLine(f, i, line) ==
    [f EXCEPT !.lines = SubSeq(@, 1, i - 1) \o <<line>> \o SubSeq(@, i, Len(@))]

\* the file with tabs for the blanks inside every line
Tabbed(f) ==
    [f EXCEPT !.lines = [i \in 1..Len(@) |-> Tb(Flatten(@[i]))]]

\* the file with its last line written once more
RepeatLastLine(f) == [f EXCEPT !.lines = Append(@, @[Len(@)])]

\* the file with the last word of its last line left out
ShortenLastLine(f) ==
    [f EXCEPT !.lines[Len(f.lines)] = SubSeq(@, 1, Len(@) - 1)]

\* a file without a ROOT line: a JOINT inside a pair of braces, and a
\* second JOINT after them
UnrootedFile ==
    [exists |-> TRUE, name |-> "take",
     lines |-> <<Sp(<<"HIERARCHY">>), Sp(<<"{">>)>>
               \o JointLines("JOINT", Jt("Spine", <<"1", "2", "3">>,
                                          <<"Xrotation">>, <<>>, <<>>))
               \o <<Sp(<<"}">>)>>
               \o JointLines("JOINT", Jt("Hand", <<"3", "2", "1">>,
                                          <<"Zrotation">>, <<>>, <<>>))
               \o <<Sp(<<"MOTION">>), Sp(<<"Frames:", "1">>),
                    Sp(<<"Frame", "Time:", "1">>), Sp(<<"90", "90">>)>>]

\* a file whose CHANNELS line declares one channel and names two
MiscountedFile ==
    [exists |-> TRUE, name |-> "take",
     lines |-> <<Sp(<<"HIERARCHY">>), Sp(<<"ROOT", "Hips">>), Sp(<<"{">>),
                 Sp(<<"OFFSET", "1", "2", "3">>),
                 Sp(<<"CHANNELS", "1", "Xrotation", "Yrotation">>),
                 Sp(<<"}">>), Sp(<<"MOTION">>), Sp(<<"Frames:", "1">>),
                 Sp(<<"Frame", "Time:", "1">>), Sp(<<"90", "90">>)>>]

\* a file whose ROOT and JOINT lines give no name
NamelessFile ==
    [exists |-> TRUE, name |-> "take",
     lines |-> <<Sp(<<"HIERARCHY">>), Sp(<<"ROOT">>), Sp(<<"{">>),
                 Sp(<<"OFFSET", "1", "2", "3">>),
                 Sp(<<"CHANNELS", "1", "Xrotation">>),
                 Sp(<<"JOINT">>), Sp(<<"{">>),
                 Sp(<<"OFFSET", "3", "2", "1">>),
                 Sp(<<"CHANNELS", "1", "Zrotation">>),
                 Sp(<<"}">>), Sp(<<"}">>),
                 Sp(<<"MOTION">>), Sp(<<"Frames:", "1">>),
                 Sp(<<"Frame", "Time:", "1">>), Sp(<<"90", "90">>)>>]

NoFile == [exists |-> FALSE, name |-> "take", lines |-> <<>>]

UsedShapes == {Shapes[i] : i \in 1..(IF MaxShapes < Len(Shapes) THEN MaxShapes
                                     ELSE Len(Shapes))}
UsedPatterns == {Patterns[i] : i \in 1..Len(Patterns)}

\* well formed files
GoodFiles == {FileOf(sh, F, pat) : sh \in UsedShapes, F \in 1..MaxFrames,
                                   pat \in UsedPatterns}
\* the files whose damaged copies are taken
SeedFiles == {FileOf(sh, MaxFrames, Patterns[2]) : sh \in UsedShapes}
\* one line lost, one closing brace too many, tabs for blanks, one row
\* more than Frames: declares, a last row that is short, no ROOT line, a
\* channel count below the number of keywords, declarations without a name
DamagedFiles ==
    UNION {{DropLine(f, i) : i \in 1..Len(f.lines)} : f \in SeedFiles}
    \cup UNION {{InsertLine(f, i, Sp(<<"}">>)) :
                     i \in {j \in 1..Len(f.lines) :
                               LineIs(f.lines[j], "MOTION")}} : f \in SeedFiles}
    \cup {Tabbed(f) : f \in SeedFiles}
    \cup {RepeatLastLine(f) : f \in SeedFiles}
    \cup {ShortenLastLine(f) : f \in SeedFiles}
    \cup {UnrootedFile, MiscountedFile, NamelessFile}

Files == GoodFiles \cup DamagedFiles \cup {NoFile}

\* the files a parser that has been used may be given next: under another
\* name, the single joint file with one row, the same with one line lost,
\* the file without a ROOT line, and none
OtherFiles ==
    LET B == FileOf(Shapes[5], 1, Patterns[2])
    IN  {[f EXCEPT !.name = "other"] :
             f \in {B, UnrootedFile, NoFile}
                   \cup {DropLine(B, i) : i \in 1..Len(B.lines)}}

(***************************************************************************)
(* The state machine                                                       *)
(***************************************************************************)
Init ==
    /\ file \in Files
    /\ parser = ClearedParser
    /\ out = [op |-> "none"]

\* the payload keys a caller may ask for: those Translate hands out for
\* the joint names of the catalogue, and one that belongs to no joint
QueryKeys ==
    {KeyOf("take", n) : n \in {"Hips", "Spine", "Hand", "Left_Hand",
                               "Hips_End", "Nobody"}}

FactoryCreateFile ==
    /\ \E ub \in UB : out' = FactoryCreateFileResult(file, ub)
    /\ UNCHANGED <<file, parser>>

Translate ==
    /\ \E ub \in UB : out' = TranslateResult(file, ub)
    /\ UNCHANGED <<file, parser>>

\* the arrays of queries: one key, or the root's key and one more
QueryLists ==
    {<<q>> : q \in QueryKeys}
    \cup {<<KeyOf("take", "Hips"), q>> : q \in QueryKeys \ {KeyOf("take", "Hips")}}

GetAnimationPayloadData ==
    /\ \E ub \in UB, PayloadQueries \in QueryLists :
           out' = GetAnimationPayloadDataResult(file, PayloadQueries, ub)
    /\ UNCHANGED <<file, parser>>

\* Parse(Filename) on the object as it is: with the file it was given
\* before, or with another
Parse ==
    \E f \in {file} \cup OtherFiles :
        /\ \E r \in {InterchangeParseOn(parser, f)} :
               /\ parser' = r[2]
               /\ out' = [op |-> "Parse", ret |-> r[1]]
        /\ file' = f

LoadBVHFile ==
    /\ \E r \in {LoadBVHFileResult(parser, file)} :
           /\ parser' = r[2]
           /\ out' = r[1]
    /\ UNCHANGED file

\* the node uids a caller may pass: those LoadBVHFile handed out, and one
\* that belongs to no joint
QueryUids == {<<"SceneNode", "Nobody", "0">>}

GetTransform ==
    /\ \E ub \in UB, FrameIndex \in (0 - 1)..MaxFrames,
          NodeUid \in QueryUids \cup
                      {parser.NodeUidToJointMap[i][1] :
                          i \in 1..Len(parser.NodeUidToJointMap)} :
           out' = GetTransformResult(parser, FrameIndex, NodeUid, ub)
    /\ UNCHANGED <<file, parser>>

\* the import through UBVHFactory and UInterchangeBVHTranslator, which
\* parse with FBVHParser
Next ==
    \/ FactoryCreateFile
    \/ Translate
    \/ GetAnimationPayloadData

Spec == Init /\ [][Next]_vars

\* the use of one FInterchangeBVHParser object
NextInterchange ==
    \/ Parse
    \/ LoadBVHFile
    \/ GetTransform

SpecInterchange == Init /\ [][NextInterchange]_vars

(***************************************************************************)
(* Properties                                                              *)
(***************************************************************************)
\* a quarter turn about a coordinate axis (1 = X, 2 = Y, 3 = Z), by the
\* right hand rule
QuarterTurn(axis, v) ==
    CASE axis = 1 -> <<v[1], 0 - v[3], v[2]>>
      [] axis = 2 -> <<v[3], v[2], 0 - v[1]>>
      [] axis = 3 -> <<0 - v[2], v[1], v[3]>>

RECURSIVE TurnAbout(_, _, _)
\* k quarter turns about an axis
TurnAbout(axis, k, v) ==
    IF k % 4 = 0 THEN v ELSE TurnAbout(axis, (k % 4) - 1, QuarterTurn(axis, v))

Cross(a, b) ==
    <<a[2] * b[3] - a[3] * b[2], a[3] * b[1] - a[1] * b[3],
      a[1] * b[2] - a[2] * b[1]>>

\* the vector v turned by the rotation q stands for:
\* v + (w * T + u x T) / 2^e with u = (x, y, z) and T = 2 (u x v)
RotateVector(q, v) ==
    LET u == <<q.x, q.y, q.z>>
        T == Cross(<<2 * q.x, 2 * q.y, 2 * q.z>>, v)
        uT == Cross(u, T)
    IN  [i \in 1..3 |-> v[i] + ((q.w * T[i] + uT[i]) \div (2 ^ q.e))]

Basis == {<<1, 0, 0>>, <<0, 1, 0>>, <<0, 0, 1>>}

\* two quaternions that stand for one rotation
SameRotation(p, q) == \A v \in Basis : RotateVector(p, v) = RotateVector(q, v)

\* the axis of a rotation keyword, of either parser; 0 for any other
RotationAxis(c) ==
    CASE c \in {"Xrotation", "X_ROTATION"} -> 1
      [] c \in {"Yrotation", "Y_ROTATION"} -> 2
      [] c \in {"Zrotation", "Z_ROTATION"} -> 3
      [] OTHER -> 0

\* the axis of a position keyword, of either parser; 0 for any other
PositionAxis(c) ==
    CASE c \in {"Xposition", "X_POSITION"} -> 1
      [] c \in {"Yposition", "Y_POSITION"} -> 2
      [] c \in {"Zposition", "Z_POSITION"} -> 3
      [] OTHER -> 0

\* v turned by the product, read left to right, of the rotations of the
\* rotation channels in list order, the angle of axis a taken sign[a] times:
\* the last factor acts first
TurnedInListOrder(chans, vals, sign, v) ==
    LET n == Len(chans)
        F[i \in 0..n] ==
            IF i = 0 THEN v
            ELSE LET a == RotationAxis(chans[n + 1 - i])
                 IN  IF a = 0 THEN F[i - 1]
                     ELSE TurnAbout(a, (sign[a] * vals[n + 1 - i][1]) \div 90,
                                    F[i - 1])
    IN  F[n]

\* every joint and frame FactoryCreateFile or GetAnimationPayloadData has
\* composed: the node, the frame and what was composed
ComposedFrames ==
    IF out.op = "FactoryCreateFile" /\ out.ret = "asset"
    THEN UNION {{[node |-> out.nodes[out.Tracks[b].Node], frame |-> fr,
                  key |-> out.Tracks[b].Keys[fr]] :
                     fr \in DOMAIN out.Tracks[b].Keys} :
                   b \in 1..Len(out.Tracks)}
    ELSE IF out.op = "GetAnimationPayloadData" /\ out.ret = "payload"
    THEN UNION {{[node |-> out.nodes[out.PayloadDatas[i].Node], frame |-> fr,
                  key |-> out.PayloadDatas[i].Transforms[fr]] :
                     fr \in DOMAIN out.PayloadDatas[i].Transforms} :
                   i \in 1..Len(out.PayloadDatas)}
    ELSE {}

RECURSIVE SubtreeOf(_, _)
\* a node and everything below it
SubtreeOf(nodes, id) ==
    {id} \cup UNION {SubtreeOf(nodes, nodes[id].Children[k]) :
                        k \in 1..Len(nodes[id].Children)}

\* j comes before i in the pre-order, depth-first, file-order traversal: i
\* is below j, or j is in the subtree of an earlier child of some node and
\* i in the subtree of a later one
PrecedesInPreOrder(nodes, j, i) ==
    /\ j # i
    /\ \/ i \in SubtreeOf(nodes, j)
       \/ \E p \in 1..Len(nodes) :
              \E m, n \in 1..Len(nodes[p].Children) :
                  /\ m < n
                  /\ j \in SubtreeOf(nodes, nodes[p].Children[m])
                  /\ i \in SubtreeOf(nodes, nodes[p].Children[n])

RECURSIVE SumOfChannels(_, _)
\* the sum of Channels.Num() over a set of nodes
SumOfChannels(nodes, S) ==
    IF S = {} THEN 0
    ELSE LET j == CHOOSE j \in S : TRUE
         IN  Len(nodes[j].Channels) + SumOfChannels(nodes, S \ {j})

\* C1: after the channel-index pass of FactoryCreateFile (the FlatNodes
\* loop) and of GetAnimationPayloadData (FChannelVisitor::Visit), every
\* joint's ChannelStartIndex is the sum of the channel counts of the joints
\* that precede it in the pre-order, depth-first, file-order traversal of
\* the parsed tree; the root's is 0.
C1_ChannelStartIndexIsPreOrderPrefixSum ==
    (/\ out.op \in {"FactoryCreateFile", "GetAnimationPayloadData"}
     /\ out.ret \in {"asset", "payload"})
    => /\ out.nodes[out.Data.RootNode].ChannelStartIndex = 0
       /\ \A i \in SubtreeOf(out.nodes, out.Data.RootNode) :
              out.nodes[i].ChannelStartIndex =
                  SumOfChannels(out.nodes,
                      {j \in 1..Len(out.nodes) :
                          PrecedesInPreOrder(out.nodes, j, i)})

\* GetAnimationPayloadData has indexed a tree in which a second child
\* (Left_Hand) follows a first child that has a child of its own: its index
\* 5 is the 1 + 1 + 3 channels of Hips, Spine and Hand
C1_Witness ==
    /\ out.op = "GetAnimationPayloadData"
    /\ out.ret = "payload"
    /\ \E i \in 1..Len(out.nodes) :
           /\ out.nodes[i].Name = "Left_Hand"
           /\ out.nodes[i].ChannelStartIndex = 5
           /\ out.nodes[out.Data.RootNode].Children[2] = i

\* what was composed is the product in channel order
RotationInChannelOrder(c) ==
    \A v \in Basis :
        RotateVector(c.key.LocalRot, v) =
            TurnedInListOrder(c.node.Channels, c.key.vals, <<1, 1, 1>>, v)

\* the channel lists of c and d differ only in the order of two rotation
\* channels about different axes, at the places i < j, and the values are
\* the same for the same channel
SwappedAt(c, d, i, j) ==
    /\ RotationAxis(c.node.Channels[i]) # 0
    /\ RotationAxis(c.node.Channels[j]) # 0
    /\ RotationAxis(c.node.Channels[i]) # RotationAxis(c.node.Channels[j])
    /\ d.node.Channels[i] = c.node.Channels[j]
    /\ d.node.Channels[j] = c.node.Channels[i]
    /\ d.key.vals[i][1] = c.key.vals[j][1]
    /\ d.key.vals[j][1] = c.key.vals[i][1]
    /\ \A k \in (1..Len(c.node.Channels)) \ {i, j} :
           /\ d.node.Channels[k] = c.node.Channels[k]
           /\ d.key.vals[k][1] = c.key.vals[k][1]

TransformChannels ==
    [i \in 1..Len(parser.Joints[out.Joint].Channels) |->
        parser.Channels[parser.Joints[out.Joint].Channels[i]].Type]

GetTransformDone == out.op = "GetTransform" /\ out.ret = "transform"

\* C3: for a well formed file, the rotation GetTransform returns is the
\* product of the single-axis rotations of the joint's rotation channels in
\* the order the CHANNELS list declares them, for every channel order (with
\* the angles as written, or with the signs GetTransform gives them:
\* -X, Y, -Z).
C3_GetTransformInDeclaredOrder ==
    (file \in GoodFiles /\ GetTransformDone)
    => \E sign \in {<<1, 1, 1>>, <<0 - 1, 1, 0 - 1>>} :
           \A v \in Basis :
               RotateVector(out.Rotation, v) =
                   TurnedInListOrder(TransformChannels, out.vals, sign, v)

\* the source-space translation of a joint: the channel-position vector if
\* the list has a position channel, else the static OFFSET
TranslationOf(chans, Offset, vals) ==
    IF \E i \in 1..Len(chans) : PositionAxis(chans[i]) # 0
    THEN [a \in 1..3 |->
             IF \E i \in 1..Len(chans) : PositionAxis(chans[i]) = a
             THEN vals[CHOOSE i \in 1..Len(chans) :
                           /\ PositionAxis(chans[i]) = a
                           /\ \A k \in 1..Len(chans) :
                                  PositionAxis(chans[k]) = a => k <= i][1]
             ELSE 0]
    ELSE Offset

\* the mapping (x, y, z) -> (x, -z, y)
ToEngine(v) == <<v[1], 0 - v[3], v[2]>>

\* C4: for every joint and frame of a well formed file, in
\* FactoryCreateFile, GetAnimationPayloadData and GetTransform: with a
\* position channel in the list the source-space translation is the
\* channel-position vector alone (0 where a component has no channel,
\* nothing from OFFSET); without one it is exactly OFFSET.  GetTransform
\* returns the translation already mapped, so it is compared under the
\* mapping (x, -z, y) and under the mapping GetTransform applies,
\* (x, -y, z).
C4_PositionChannelsReplaceOffset ==
    /\ file \in GoodFiles
       => \A c \in ComposedFrames :
              c.key.LocalPos =
                  TranslationOf(c.node.Channels, c.node.Offset, c.key.vals)
    /\ (file \in GoodFiles /\ GetTransformDone)
       => LET t == TranslationOf(TransformChannels,
                                 parser.Joints[out.Joint].Offset, out.vals)
          IN  out.Location \in {ToEngine(t), <<t[1], 0 - t[2], t[3]>>}

\* C5: for a well formed file, every translation handed to the engine side
\* is the source vector
\* (x, y, z) mapped to (x, -z, y): the static offsets of
\* BuildSkeletonHierarchy, Translate and LoadBVHFile, and the per-frame
\* translations of FactoryCreateFile, GetAnimationPayloadData and
\* GetTransform (there: of a joint that has no position channel, whose
\* translation is its OFFSET).
C5_OneAxisMappingEverywhere ==
    file \in GoodFiles =>
    /\ (out.op = "FactoryCreateFile" /\ out.ret = "asset")
       => \A k \in 1..Len(out.Bones) :
              out.Bones[k].Location =
                  ToEngine(out.Data.nodes[out.Bones[k].Node].Offset)
    /\ (out.op = "Translate" /\ out.ret = "true")
       => \A k \in 1..Len(out.SceneNodes) :
              out.SceneNodes[k].Location =
                  ToEngine(out.Data.nodes[out.SceneNodes[k].Node].Offset)
    /\ \A c \in ComposedFrames : c.key.Location = ToEngine(c.key.LocalPos)
    /\ (out.op = "LoadBVHFile" /\ out.ret)
       => \A k \in 1..Len(out.SceneNodes) :
              out.SceneNodes[k].Location =
                  ToEngine(parser.Joints[out.SceneNodes[k].Joint].Offset)
    /\ (/\ GetTransformDone
        /\ \A i \in 1..Len(TransformChannels) :
               PositionAxis(TransformChannels[i]) = 0)
       => out.Location = ToEngine(parser.Joints[out.Joint].Offset)

\* the End Site blocks of the file that are written out in full: the line
\* numbers of "End Site" followed by "{", "OFFSET x y z" and "}"
EndSiteBlocks ==
    {i \in 1..(Len(file.lines) - 3) :
        /\ file.lines[i] = Sp(<<"End", "Site">>)
        /\ LineIs(file.lines[i + 1], "{")
        /\ StartsWith(file.lines[i + 2], "OFFSET")
        /\ Len(file.lines[i + 2]) = 4
        /\ LineIs(file.lines[i + 3], "}")}

\* the OFFSET of the End Site block at line i
EndSiteOffset(i) ==
    <<Atod(file.lines[i + 2][2]), Atod(file.lines[i + 2][3]),
      Atod(file.lines[i + 2][4])>>

\* the channels the CHANNELS lines of the file declare, all told
DeclaredChannels ==
    LET F[i \in 0..Len(file.lines)] ==
            IF i = 0 THEN 0
            ELSE IF StartsWith(file.lines[i], "CHANNELS")
                    /\ Len(file.lines[i]) > 2
            THEN F[i - 1] + Len(file.lines[i]) - 2
            ELSE F[i - 1]
    IN  F[Len(file.lines)]

\* the outcome carries the FBVHData of a successful FBVHParser::Parse
FBVHParsed ==
    /\ out.op \in {"FactoryCreateFile", "Translate", "GetAnimationPayloadData"}
    /\ out.ret \in {"asset", "true", "payload"}

InterchangeParsed == out.op = "Parse" /\ out.ret

\* C6: in a well formed file, a joint block that contains
\* End Site { OFFSET x y z } yields, in either parser, a leaf joint with
\* zero channels and offset (x, y, z) that is a child of the enclosing
\* joint (FBVHParser names it after the parent, with the suffix _End), and
\* the block takes no motion channel slot: the channels are those of the
\* CHANNELS lines.
C6_EndSiteIsLeafJoint ==
    /\ (file \in GoodFiles /\ FBVHParsed)
       => /\ \A i \in EndSiteBlocks :
                 \E k \in 1..Len(out.Data.nodes) :
                     /\ out.Data.nodes[k].Channels = <<>>
                     /\ out.Data.nodes[k].Children = <<>>
                     /\ out.Data.nodes[k].Offset = EndSiteOffset(i)
                     /\ out.Data.nodes[k].Parent # 0
                     /\ out.Data.nodes[k].Name =
                            out.Data.nodes[out.Data.nodes[k].Parent].Name
                                \o "_End"
                     /\ \E m \in 1..Len(out.Data.nodes[
                                           out.Data.nodes[k].Parent].Children) :
                            out.Data.nodes[out.Data.nodes[k].Parent]
                                .Children[m] = k
          /\ SumOfChannels(out.Data.nodes, 1..Len(out.Data.nodes))
                 = DeclaredChannels
    /\ (file \in GoodFiles /\ InterchangeParsed)
       => /\ \A i \in EndSiteBlocks :
                 \E k \in 1..Len(parser.Joints) :
                     /\ parser.Joints[k].Channels = <<>>
                     /\ parser.Joints[k].Children = <<>>
                     /\ parser.Joints[k].Offset = EndSiteOffset(i)
                     /\ parser.Joints[k].Parent # 0
                     /\ \E m \in 1..Len(parser.Joints[
                                           parser.Joints[k].Parent].Children) :
                            parser.Joints[parser.Joints[k].Parent]
                                .Children[m] = k
          /\ Len(parser.Channels) = DeclaredChannels

\* the file declares a channel keyword outside the six
HasUnknownKeyword ==
    \E i \in 1..Len(file.lines) :
        /\ StartsWith(file.lines[i], "CHANNELS")
        /\ \E k \in 3..Len(file.lines[i]) :
               /\ Len(file.lines[i][k]) = 1
               /\ PositionAxis(file.lines[i][k][1]) = 0
               /\ RotationAxis(file.lines[i][k][1]) = 0

\* C7: a CHANNELS list with a keyword outside the six does not make Parse
\* fail, in either parser: the file being well formed otherwise, Parse
\* succeeds, the keyword takes one channel of the joint and one column, and
\* it adds nothing to translation or rotation.
C7_UnknownKeywordIsNotFatal ==
    (file \in GoodFiles /\ HasUnknownKeyword)
    => /\ out.op \in {"FactoryCreateFile", "Translate",
                      "GetAnimationPayloadData"}
          => /\ out.ret \in {"crash", "asset", "true", "payload"}
             /\ out.ret # "crash"
                => SumOfChannels(out.Data.nodes, 1..Len(out.Data.nodes))
                       = DeclaredChannels
             /\ \A c \in ComposedFrames :
                    /\ RotationInChannelOrder(c)
                    /\ c.key.LocalPos =
                           TranslationOf(c.node.Channels, c.node.Offset,
                                         c.key.vals)
       /\ out.op = "Parse"
          => /\ out.ret
             /\ Len(parser.Channels) = DeclaredChannels

\* the atoms of the file in reading order
FileTokens == Flatten(Flatten(file.lines))

\* C8: Parse, of either parser, fails when the input has no HIERARCHY
\* header or no ROOT declaration after it: it never succeeds with zero
\* joints.
C8_NoSuccessWithoutRoot ==
    /\ FBVHParsed
       => /\ out.Data.RootNode # 0
          /\ Len(out.Data.nodes) > 0
          /\ \E i, j \in 1..Len(FileTokens) :
                 i < j /\ FileTokens[i] = "HIERARCHY" /\ FileTokens[j] = "ROOT"
    /\ InterchangeParsed
       => /\ Len(parser.Joints) > 0
          /\ \E i, j \in 1..Len(FileTokens) :
                 i < j /\ FileTokens[i] = "HIERARCHY" /\ FileTokens[j] = "ROOT"

\* the number of blocks open after the first n atoms of the file
OpenBlocks(n) ==
    Cardinality({i \in 1..n : FileTokens[i] = "{"})
        - Cardinality({i \in 1..n : FileTokens[i] = "}"})

\* every block that is opened is closed, and no "}" comes without one open
BlocksMatch ==
    /\ \A n \in 1..Len(FileTokens) : OpenBlocks(n) >= 0
    /\ OpenBlocks(Len(FileTokens)) = 0

\* every ROOT, JOINT and End Site declaration is followed by its "{"
BlocksOpened ==
    \A i \in 1..Len(FileTokens) :
        /\ FileTokens[i] \in {"ROOT", "JOINT"}
           => (i + 2 <= Len(FileTokens) /\ FileTokens[i + 2] = "{")
        /\ FileTokens[i] = "Site"
           => (i + 1 <= Len(FileTokens) /\ FileTokens[i + 1] = "{")

\* C9: Parse, of either parser, fails when a joint block lacks its opening
\* "{", lacks its closing "}", or a "}" comes with no block open: success
\* is returned only when every opened block was closed.
C9_NoSuccessWithUnmatchedBraces ==
    (FBVHParsed \/ InterchangeParsed) => (BlocksMatch /\ BlocksOpened)

\* C10: if the MOTION section lacks its Frames: or its Frame Time:
\* declaration, motion parsing fails: Parse, of either parser, does not
\* succeed with the frame count or the frame time left at 0.
C10_NoSuccessWithoutMotionHeader ==
    /\ FBVHParsed
       => /\ out.Data.NumFrames # 0
          /\ out.Data.FrameTime # 0
          /\ \E i \in 1..Len(FileTokens) : FileTokens[i] = "Frames:"
          /\ \E i \in 1..Len(FileTokens) : FileTokens[i] = "Time:"
    /\ InterchangeParsed
       => /\ parser.NumFrames # 0
          /\ parser.FrameTime # 0
          /\ \E i \in 1..Len(FileTokens) : FileTokens[i] = "Frames:"
          /\ \E i \in 1..Len(FileTokens) : FileTokens[i] = "Time:"

\* FBVHParser::Parse has returned false to the operation that called it
FBVHParseFailed ==
    /\ out.op \in {"FactoryCreateFile", "Translate", "GetAnimationPayloadData"}
    /\ out.ret \in {"null", "false", "empty"}
    /\ file.exists

\* C11: whenever Parse returns failure no partial result is left: the
\* FInterchangeBVHParser object holds no joints, channels, uid mappings or
\* motion values, and the OutData of FBVHParser::Parse holds no joint tree,
\* partially built or whole, and no motion rows.
C11_NoPartialResultOnFailure ==
    /\ (out.op = "Parse" /\ ~out.ret)
       => /\ parser.Joints = <<>>
          /\ parser.Channels = <<>>
          /\ parser.JointMap = <<>>
          /\ parser.NodeUidToJointMap = <<>>
          /\ parser.MotionData = <<>>
    /\ (FBVHParseFailed /\ ~out.Data.ret)
       => /\ out.Data.RootNode = 0
          /\ out.Data.nodes = <<>>
          /\ out.Data.MotionData = <<>>

\* the place of the Frame Time value among the atoms of the file, 0 if the
\* file has no "Frame Time:" followed by a value
FrameTimeAt ==
    LET at == {i \in 2..(Len(FileTokens) - 1) :
                  FileTokens[i - 1] = "Frame" /\ FileTokens[i] = "Time:"}
    IN  IF at = {} THEN 0 ELSE (CHOOSE i \in at : \A j \in at : i <= j) + 1

\* the first n values written after the Frame Time value, fewer if the
\* file has fewer
ValuesAfterFrameTime(n) ==
    LET present == Len(FileTokens) - FrameTimeAt
        k == IF n < present THEN n ELSE present
    IN  [i \in 1..(IF k > 0 THEN k ELSE 0) |->
            AtodAtom(FileTokens[FrameTimeAt + i])]

\* C12: after a successful parse of a file that has its Frame Time value,
\* the motion values stored are the first frame_count * total_channel_count
\* values that follow it, in file order, or all of them if the file has
\* fewer: values beyond that number are not stored, and a file with fewer
\* still parses.
C12_StoresDeclaredNumberOfValues ==
    /\ (InterchangeParsed /\ FrameTimeAt > 0)
       => parser.MotionData =
              ValuesAfterFrameTime(parser.NumFrames * Len(parser.Channels))
    /\ (FBVHParsed /\ FrameTimeAt > 0)
       => Flatten(out.Data.MotionData) =
              ValuesAfterFrameTime(
                  out.Data.NumFrames
                      * SumOfChannels(out.Data.nodes, 1..Len(out.Data.nodes)))

C14_IdentityOutsideRange ==
    (/\ out.op = "GetTransform"
     /\ \/ \A i \in 1..Len(parser.NodeUidToJointMap) :
               parser.NodeUidToJointMap[i][1] # out.NodeUid
        \/ out.FrameIndex < 0
        \/ out.FrameIndex >= parser.NumFrames)
    => /\ out.ret = "identity"
       /\ out.Location = <<0, 0, 0>>
       /\ RotateVector(out.Rotation, <<1, 0, 0>>) = <<1, 0, 0>>
       /\ RotateVector(out.Rotation, <<0, 1, 0>>) = <<0, 1, 0>>
       /\ out.vals = <<>>

\* GetTransform was asked for frame NumFrames = 2 of a joint that
\* LoadBVHFile gave a uid, the object holding motion values
C14_Witness ==
    /\ out.op = "GetTransform"
    /\ out.ret = "identity"
    /\ parser.NumFrames = 2
    /\ out.FrameIndex = 2
    /\ parser.MotionData # <<>>
    /\ \E i \in 1..Len(parser.NodeUidToJointMap) :
           parser.NodeUidToJointMap[i][1] = out.NodeUid

\* C15: for every file on which Parse succeeded, a motion section shorter
\* than frame_count * total_channels included, every read of motion data
\* made by GetTransform, GetAnimationPayloadData and FactoryCreateFile lies
\* inside the stored data: none of them reads outside it, and none stops
\* on such a read.
C15_MotionReadsInRange ==
    /\ out.op = "GetTransform"
       => /\ out.ret # "crash"
          /\ out.ret = "transform" => ~out.oob
    /\ (FBVHParsed /\ out.op # "Translate") => ~out.oob

\* the lines of the file that declare a joint, in file order
Declarations ==
    LET F[i \in 0..Len(file.lines)] ==
            IF i = 0 THEN <<>>
            ELSE IF file.lines[i] # <<>>
                    /\ file.lines[i][1] \in {<<"ROOT">>, <<"JOINT">>}
            THEN Append(F[i - 1], i)
            ELSE F[i - 1]
    IN  F[Len(file.lines)]

\* what the declaration at line i of a well formed file says: the name, the
\* OFFSET two lines on, the keywords of the CHANNELS line after it if the
\* block has one
Declared(i) ==
    [Name |-> file.lines[i][2][1],
     Offset |-> <<Atod(file.lines[i + 2][2]), Atod(file.lines[i + 2][3]),
                  Atod(file.lines[i + 2][4])>>,
     Keywords |-> IF StartsWith(file.lines[i + 3], "CHANNELS")
                  THEN [k \in 1..(Len(file.lines[i + 3]) - 2) |->
                           file.lines[i + 3][k + 2][1]]
                  ELSE <<>>]

\* a channel of either parser is the one the keyword names
ChannelIs(c, keyword) ==
    IF PositionAxis(keyword) # 0
    THEN PositionAxis(c) = PositionAxis(keyword)
    ELSE IF RotationAxis(keyword) # 0
    THEN RotationAxis(c) = RotationAxis(keyword)
    ELSE c = "Unknown"

\* the nodes of an FBVHData that stand for declared joints: all but the
\* End Site nodes, which alone have a Parent
DeclaredNodes(nodes) ==
    LET F[i \in 0..Len(nodes)] ==
            IF i = 0 THEN <<>>
            ELSE IF nodes[i].Parent = 0 THEN Append(F[i - 1], i)
            ELSE F[i - 1]
    IN  F[Len(nodes)]

DistinctUids(nodes) ==
    \A i, j \in 1..Len(nodes) : i # j => nodes[i].Uid # nodes[j].Uid

\* C17: for a well formed file, joints of one name included, the
\* identifiers derived for joints map one to one onto the parsed joints:
\* the NodeUids of LoadBVHFile (one key of NodeUidToJointMap and one scene
\* node per joint, no uid twice), the scene node uids and payload keys of
\* Translate (one scene node and one payload key per node, no uid twice),
\* and the name keys of BoneMap / NodeNameMap in FactoryCreateFile (one
\* entry and one track per node, no node animated twice).
C17_IdentifiersAreOneToOne ==
    file \in GoodFiles =>
    /\ (out.op = "LoadBVHFile" /\ out.ret)
       => /\ Len(parser.NodeUidToJointMap) = Len(parser.Joints)
          /\ Len(out.SceneNodes) = Len(parser.Joints)
          /\ DistinctUids(out.SceneNodes)
          /\ \A i, j \in 1..Len(out.SceneNodes) :
                 i # j => out.SceneNodes[i].Joint # out.SceneNodes[j].Joint
    /\ (out.op = "Translate" /\ out.ret = "true")
       => /\ Len(out.SceneNodes) = Len(out.Data.nodes)
          /\ DistinctUids(out.SceneNodes)
          /\ Len(out.PayloadKeys) = Len(out.Data.nodes)
          /\ \A i, j \in 1..Len(out.PayloadKeys) :
                 i # j => out.PayloadKeys[i][2] # out.PayloadKeys[j][2]
    /\ (out.op = "FactoryCreateFile" /\ out.ret = "asset")
       => /\ Len(out.BoneMap) = Len(out.Data.nodes)
          /\ Len(out.Tracks) = Len(out.Data.nodes)
          /\ \A i, j \in 1..Len(out.Tracks) :
                 i # j => out.Tracks[i].Node # out.Tracks[j].Node

\* the file is the minimal scenario: a single ROOT Hips with OFFSET 0 0 0
\* and CHANNELS 3 Xposition Yposition Zposition, followed by its frame rows
MinimalFile ==
    /\ file \in GoodFiles
    /\ Declarations = <<2>>
    /\ Declared(2) = [Name |-> "Hips", Offset |-> <<0, 0, 0>>,
                      Keywords |-> <<"Xposition", "Yposition", "Zposition">>]

\* the rows of the minimal file: the lines after the nine of the hierarchy
\* and the motion header
MinimalRows ==
    [f \in 1..(Len(file.lines) - 9) |->
        [c \in 1..3 |-> Atod(file.lines[9 + f][c])]]

\* C18: for the minimal file with F rows, parsing succeeds with one joint of
\* 3 channels and frame_count = F, and for every frame f < F the transform
\* of that joint (GetTransform, GetAnimationPayloadData, FactoryCreateFile)
\* has as translation row f's (x, y, z) mapped to (x, -z, y) and the
\* identity as rotation.
C18_MinimalFileTransforms ==
    MinimalFile =>
    /\ out.op = "Parse"
       => /\ out.ret
          /\ Len(parser.Joints) = 1
          /\ Len(parser.Joints[1].Channels) = 3
          /\ parser.NumFrames = Len(MinimalRows)
    /\ out.op \in {"FactoryCreateFile", "Translate", "GetAnimationPayloadData"}
       => /\ out.ret \in {"crash", "asset", "true", "payload"}
          /\ FBVHParsed
             => /\ Len(out.Data.nodes) = 1
                /\ Len(out.Data.nodes[1].Channels) = 3
                /\ out.Data.NumFrames = Len(MinimalRows)
    /\ \A c \in ComposedFrames :
           /\ c.key.Location = ToEngine(MinimalRows[c.frame])
           /\ SameRotation(c.key.Rotation, QuatIdentity)
    /\ (/\ out.op = "GetTransform"
        /\ GetJointFromNodeUid(parser, out.NodeUid) # 0
        /\ out.FrameIndex >= 0
        /\ out.FrameIndex < Len(MinimalRows))
       => /\ out.ret = "transform"
          /\ out.Location = ToEngine(MinimalRows[out.FrameIndex + 1])
          /\ SameRotation(out.Rotation, QuatIdentity)

\* C19: parsing a file whose tokens are separated by tabs gives what
\* parsing the file with single spaces in their place gives, in either
\* parser: the same success flag, joints with the same names, offsets and
\* channel lists, the same frame count and the same motion values.
C19_TabsParseLikeSpaces ==
    \A f \in SeedFiles :
        file = Tabbed(f)
        => /\ out.op \in {"FactoryCreateFile", "Translate",
                          "GetAnimationPayloadData"}
              => LET spaced == FBVHParser_Parse(f)
                 IN  /\ out.Data.ret = spaced.ret
                     /\ out.Data.nodes = spaced.nodes
                     /\ out.Data.NumFrames = spaced.NumFrames
                     /\ out.Data.MotionData = spaced.MotionData
           /\ out.op = "Parse"
              => /\ out.ret = InterchangeParse(f)[1]
                 /\ parser = InterchangeParse(f)[2]

\* the tree an operation has indexed and computed transforms from, as the
\* operation leaves it
IndexedTree ==
    /\ out.op \in {"FactoryCreateFile", "GetAnimationPayloadData"}
    /\ out.ret \in {"asset", "payload"}

\* C20: running a channel-index traversal again over the tree an operation
\* has indexed, the FlatNodes loop of FactoryCreateFile or
\* FChannelVisitor::Visit of GetAnimationPayloadData, gives every joint
\* the ChannelStartIndex it has; and after the per-frame transforms of the
\* operation were computed every joint has that index, and the channel
\* list and the offset that Parse gave it.
C20_TraversalIsRepeatable ==
    IndexedTree
    => /\ Visit(out.nodes, out.Data.RootNode, 0)[1] = out.nodes
       /\ AssignFlat(out.nodes, Collect(out.nodes, out.Data.RootNode))
              = out.nodes
       /\ Len(out.nodes) = Len(out.Data.nodes)
       /\ \A i \in 1..Len(out.nodes) :
              /\ out.nodes[i].Channels = out.Data.nodes[i].Channels
              /\ out.nodes[i].Offset = out.Data.nodes[i].Offset
              /\ out.nodes[i].Children = out.Data.nodes[i].Children

\* FactoryCreateFile has indexed the tree of Hips, Spine, Hand and
\* Left_Hand and written two frames for each of its bones
C20_Witness ==
    /\ out.op = "FactoryCreateFile"
    /\ out.ret = "asset"
    /\ Len(out.nodes) = 5
    /\ Len(out.Tracks) = 5
    /\ \A b \in 1..5 : DOMAIN out.Tracks[b].Keys = 1..2
    /\ \E i \in 1..5 : /\ out.nodes[i].Name = "Left_Hand"
                       /\ out.nodes[i].ChannelStartIndex = 5
    /\ \E i \in 1..5 : /\ out.nodes[i].Name = "Hand"
                       /\ out.nodes[i].ChannelStartIndex = 2

\* the mapping (x', y', z') -> (x', z', -y')
FromEngine(v) == <<v[1], v[3], 0 - v[2]>>

\* every vector FactoryCreateFile has converted with ConvertPos, with what
\* it got: the bone offsets and the translation of every key
ConvertedVectors ==
    IF out.op = "FactoryCreateFile" /\ out.ret = "asset"
    THEN {<<out.Data.nodes[out.Bones[k].Node].Offset, out.Bones[k].Location>> :
             k \in 1..Len(out.Bones)}
         \cup {<<c.key.LocalPos, c.key.Location>> : c \in ComposedFrames}
    ELSE {}

\* C21: for every vector ConvertPos has converted, applying
\* (x', y', z') -> (x', z', -y') to the result returns the vector, the
\* result being (x, -z, y); and different vectors have different results.
C21_ConvertPosRoundTrip ==
    /\ \A p \in ConvertedVectors :
           /\ p[2] = <<p[1][1], 0 - p[1][3], p[1][2]>>
           /\ FromEngine(p[2]) = p[1]
    /\ \A p, q \in ConvertedVectors : p[1] # q[1] => p[2] # q[2]

\* FactoryCreateFile has converted the offset (1, 2, 3) to (1, -3, 2) and a
\* channel position (90, 180, 270) to (90, -270, 180)
C21_Witness ==
    /\ <<<<1, 2, 3>>, <<1, 0 - 3, 2>>>> \in ConvertedVectors
    /\ <<<<90, 180, 270>>, <<90, 0 - 270, 180>>>> \in ConvertedVectors

\* the number of blocks open before line i of the file
DepthAt(i) ==
    Cardinality({m \in 1..(i - 1) : LineIs(file.lines[m], "{")})
        - Cardinality({m \in 1..(i - 1) : LineIs(file.lines[m], "}")})

\* the block of the declaration at line j is open at line i
Encloses(j, i) ==
    /\ j < i
    /\ \A m \in (j + 2)..i : DepthAt(m) > DepthAt(j)

\* the place among the declarations of the one whose braces directly hold
\* the k-th declaration; 0 for a declaration inside no block
ParentDeclaration(k) ==
    LET in == {j \in 1..Len(Declarations) :
                  Encloses(Declarations[j], Declarations[k])}
    IN  IF in = {} THEN 0 ELSE CHOOSE j \in in : \A m \in in : m <= j

\* the declarations directly inside the braces of the p-th, in file order
ChildDeclarations(p) ==
    LET F[k \in 0..Len(Declarations)] ==
            IF k = 0 THEN <<>>
            ELSE IF ParentDeclaration(k) = p THEN Append(F[k - 1], k)
            ELSE F[k - 1]
    IN  F[Len(Declarations)]

\* the entries of a sequence that are in a set, in order
Restricted(seq, S) ==
    LET F[i \in 0..Len(seq)] ==
            IF i = 0 THEN <<>>
            ELSE IF seq[i] \in S THEN Append(F[i - 1], seq[i]) ELSE F[i - 1]
    IN  F[Len(seq)]

\* C22: in a well formed file, every JOINT declared directly inside the
\* braces of joint P is recorded, by either parser, as a child of P with
\* its parent reference set to P, and the children of P are its JOINTs in
\* file order: siblings have the same parent, and a JOINT that follows a
\* closed sibling block is not attached to that sibling.
C22_JointIsChildOfEnclosingJoint ==
    /\ (file \in GoodFiles /\ InterchangeParsed)
       => \A k \in 1..Len(Declarations) :
              /\ parser.Joints[k].Parent = ParentDeclaration(k)
              /\ parser.Joints[k].Children = ChildDeclarations(k)
    /\ (file \in GoodFiles /\ FBVHParsed)
       => LET ns == DeclaredNodes(out.Data.nodes)
          IN  \A k \in 1..Len(Declarations) :
                  /\ out.Data.nodes[ns[k]].Parent =
                         (IF ParentDeclaration(k) = 0 THEN 0
                          ELSE ns[ParentDeclaration(k)])
                  /\ Restricted(out.Data.nodes[ns[k]].Children,
                                {ns[j] : j \in 1..Len(ns)})
                         = [c \in 1..Len(ChildDeclarations(k)) |->
                               ns[ChildDeclarations(k)[c]]]

\* the places (p, m) at which joint k is listed as a child
ListedAsChild(k) ==
    {pm \in (1..Len(parser.Joints)) \X (1..Len(parser.Joints)) :
        /\ pm[2] <= Len(parser.Joints[pm[1]].Children)
        /\ parser.Joints[pm[1]].Children[pm[2]] = k}

\* C23: after FInterchangeBVHParser::Parse has succeeded with at least one
\* joint, on any input, the first joint is the only one with a null Parent,
\* the Parent of every other joint precedes it in Joints, and every joint
\* but the first is listed as a child exactly once, by its Parent.
C23_SingleRootedTree ==
    (InterchangeParsed /\ Len(parser.Joints) >= 1)
    => /\ parser.Joints[1].Parent = 0
       /\ ListedAsChild(1) = {}
       /\ \A k \in 2..Len(parser.Joints) :
              /\ parser.Joints[k].Parent \in 1..(k - 1)
              /\ Cardinality(ListedAsChild(k)) = 1
              /\ \A pm \in ListedAsChild(k) : pm[1] = parser.Joints[k].Parent

\* C24: whenever FBVHParser::Parse returns true, OutData.RootNode is a
\* node, and no node ParseNode wrote to (the ROOT node, each JOINT child)
\* was a null pointer when it was written: no write went through a null
\* OutNode, and no operation stopped on one.
C24_NodesAllocatedBeforeWritten ==
    /\ FBVHParsed
       => /\ out.Data.RootNode # 0
          /\ out.Data.nullw = 0
    /\ out.op = "Translate" => out.ret # "crash"

\* the keywords the CHANNELS declarations of the file declare, in file
\* order: after each CHANNELS the count n, then the n keywords c1 .. cn
DeclaredKeywords ==
    LET t == FileTokens
        F[i \in 0..Len(t)] ==
            IF i = 0 THEN <<>>
            ELSE IF t[i] = "CHANNELS" /\ i < Len(t)
            THEN F[i - 1] \o [k \in 1..AtodAtom(t[i + 1]) |->
                                 IF i + 1 + k <= Len(t) THEN t[i + 1 + k]
                                 ELSE ""]
            ELSE F[i - 1]
    IN  F[Len(t)]

\* the channel kinds of a parsed FBVHData, joint after joint in file order
FBVHChannelKinds ==
    LET flat == Collect(out.Data.nodes, out.Data.RootNode)
    IN  Flatten([i \in 1..Len(flat) |-> out.Data.nodes[flat[i]].Channels])

\* C25: a line CHANNELS n c1 ... cn gives the joint exactly n channels, of
\* the kinds c1 .. cn in file order, in either parser: in a file whose
\* blocks are well formed, the channels of the parsed joints, joint after
\* joint, are those the CHANNELS lines declare, no token after the n
\* keywords taken as a channel and no keyword dropped.
C25_ExactlyTheDeclaredChannels ==
    file \in GoodFiles \cup {MiscountedFile} =>
    /\ FBVHParsed
       => /\ Len(FBVHChannelKinds) = Len(DeclaredKeywords)
          /\ \A c \in 1..Len(FBVHChannelKinds) :
                 c <= Len(DeclaredKeywords)
                 => ChannelIs(FBVHChannelKinds[c], DeclaredKeywords[c])
    /\ InterchangeParsed
       => /\ Len(parser.Channels) = Len(DeclaredKeywords)
          /\ \A c \in 1..Len(parser.Channels) :
                 c <= Len(DeclaredKeywords)
                 => ChannelIs(parser.Channels[c].Type, DeclaredKeywords[c])

\* C26: after FInterchangeBVHParser::Parse has returned true, Channels.Num()
\* is the sum of the joints' Channels.Num(), every channel has a joint
\* (Channel->Joint is not null) whose list contains it, no other joint's
\* list contains it, and Channels[i]->Index = i.
C26_EveryChannelBelongsToOneJoint ==
    InterchangeParsed
    => /\ Len(parser.Channels) =
              SumOfChannels(parser.Joints, 1..Len(parser.Joints))
       /\ \A i \in 1..Len(parser.Channels) :
              /\ parser.Channels[i].Index = i - 1
              /\ parser.Channels[i].Joint # 0
              /\ \A j \in 1..Len(parser.Joints) :
                     (\E k \in 1..Len(parser.Joints[j].Channels) :
                          parser.Joints[j].Channels[k] = i)
                     <=> j = parser.Channels[i].Joint

\* C27: a ROOT or JOINT declaration without a name token is accepted by
\* either parser and the joint is named "Joint"; the { after it opens the
\* joint's block and is not taken as the name: the file with a nameless
\* ROOT and a nameless JOINT inside it parses to two joints named "Joint",
\* the second the child of the first, each with its own offset and channel.
C27_NamelessJointIsCalledJoint ==
    file = NamelessFile =>
    /\ out.op \in {"FactoryCreateFile", "Translate", "GetAnimationPayloadData"}
       => /\ out.ret \in {"crash", "asset", "true", "payload"}
          /\ FBVHParsed
             => /\ Len(out.Data.nodes) = 2
                /\ \A k \in 1..2 : out.Data.nodes[k].Name = "Joint"
                /\ out.Data.nodes[out.Data.RootNode].Children = <<2>>
                /\ out.Data.nodes[1].Offset = <<1, 2, 3>>
                /\ out.Data.nodes[2].Offset = <<3, 2, 1>>
    /\ out.op = "Parse"
       => /\ out.ret
          /\ Len(parser.Joints) = 2
          /\ \A k \in 1..Len(parser.Joints) :
                 /\ parser.Joints[k].Name = "Joint"
                 /\ Len(parser.Joints[k].Channels) = 1
          /\ Len(parser.Joints) = 2
             => /\ parser.Joints[1].Parent = 0
                /\ parser.Joints[2].Parent = 1
                /\ parser.Joints[1].Offset = <<1, 2, 3>>
                /\ parser.Joints[2].Offset = <<3, 2, 1>>

\* C28: Parse called on a file after any sequence of earlier Parse,
\* LoadBVHFile and GetTransform calls on the same FInterchangeBVHParser
\* object returns what a freshly constructed parser returns for that file
\* and leaves the same joints, channels, NodeUid mappings, motion values,
\* frame count and frame time: nothing of an earlier parse survives.
C28_ParseStartsAfresh ==
    out.op = "Parse"
    => /\ out.ret = InterchangeParse(file)[1]
       /\ parser = InterchangeParse(file)[2]

\* a parser that was given a file named take has parsed, under the name
\* other, the single joint file whose Frames: line is lost: one joint,
\* three channels, no frames and no motion values
C28_Witness ==
    /\ out.op = "Parse"
    /\ out.ret
    /\ file.name = "other"
    /\ \A i \in 1..Len(file.lines) : file.lines[i][1] # <<"Frames:">>
    /\ Len(parser.Joints) = 1
    /\ Len(parser.Channels) = 3
    /\ parser.NumFrames = 0
    /\ parser.FrameTime = 1
    /\ parser.MotionData = <<>>
    /\ parser.NodeUidToJointMap = <<>>

\* C29: the payload key Translate generates for a joint J of the parsed
\* file (Filename + "_" + J.Name) is resolved by GetAnimationPayloadData to
\* J itself: every payload returned for the key of a joint is computed from
\* that joint's node, also when another joint's name is a suffix of its
\* name after an underscore (Hand and Left_Hand) and when two joints share
\* a name.
C29_PayloadKeyResolvesToItsJoint ==
    (out.op = "GetAnimationPayloadData" /\ out.ret = "payload")
    => \A p \in 1..Len(out.PayloadDatas) :
           \A j \in SubtreeOf(out.nodes, out.Data.RootNode) :
               out.PayloadDatas[p].Key = KeyOf(file.name, out.nodes[j].Name)
               => out.PayloadDatas[p].Node = j

\* two channel tags, of either parser, name the same kind
SameKind(a, b) ==
    /\ PositionAxis(a) = PositionAxis(b)
    /\ RotationAxis(a) = RotationAxis(b)

\* C30: for a file that both parsers accept, FBVHParser (columns by
\* pre-order ChannelStartIndex + position in the joint's channel list) and
\* FInterchangeBVHParser (columns by Channel->Index) agree on the motion
\* layout: the same total channel count, the same frame count, and every
\* column of a motion row given to the joint of the same name with the same
\* channel kind.
C30_ParsersAgreeOnMotionLayout ==
    (/\ out.op \in {"FactoryCreateFile", "GetAnimationPayloadData"}
     /\ out.ret \in {"asset", "payload"})
    => \A r \in {InterchangeParse(file)} :
           r[1]
           => LET P == r[2]
                  tree == SubtreeOf(out.nodes, out.Data.RootNode)
              IN  /\ SumOfChannels(out.nodes, tree) = Len(P.Channels)
                  /\ out.Data.NumFrames = P.NumFrames
                  /\ \A c \in 1..Len(P.Channels) :
                         /\ P.Channels[c].Index = c - 1
                         /\ P.Channels[c].Joint # 0
                         /\ \E j \in tree :
                                LET k == c - out.nodes[j].ChannelStartIndex
                                IN  /\ k \in 1..Len(out.nodes[j].Channels)
                                    /\ SameKind(out.nodes[j].Channels[k],
                                                P.Channels[c].Type)
                                    /\ out.nodes[j].Name =
                                           P.Joints[P.Channels[c].Joint].Name

====
